---- MODULE Spec2Model ----
(***************************************************************************)
(* Model of the enhanced credential store of AutoConnect                   *)
(* (src/src/AutoConnectCredentialEnhanced.h) and of the helpers it uses    *)
(* (src/src/AutoConnectRAII.h, src/src/AutoConnectError.h).                *)
(*                                                                         *)
(* Strings are sequences of one-character strings, so that lengths,        *)
(* strcmp and the character replacements of sanitizeHTML are computed.     *)
(* An ACResult is modelled by its error kind (the name of the ACError      *)
(* enumerator); the message text is not modelled.                          *)
(***************************************************************************)
EXTENDS Integers, Sequences, FiniteSets, TLC

(***************************************************************************)
(* Bounds of the model.                                                    *)
(***************************************************************************)
\* capacity handed to the constructor (the source's default is 10)
MaxCredentials == 2

(***************************************************************************)
(* Program constants.                                                      *)
(***************************************************************************)
\* EnhancedCredential(): ssid(33)
SsidCapacity == 33
\* EnhancedCredential(): password(64)
PasswordCapacity == 64
\* validate(): ssid.length() > 32
MaxSsidLength == 32
\* validate(): password.length() < 8
MinPasswordLength == 8
\* validate(): password.length() > 63
MaxPasswordLength == 63
\* EnhancedCredential(): lastRSSI(-120)
DefaultRSSI == -120

(***************************************************************************)
(* Values the callers supply.                                              *)
(***************************************************************************)
Str(n, ch) == [i \in 1..n |-> ch]

\* texts handed to ssid.set(): empty, three that fit, one of 33 characters
SsidInputs == { <<>>, <<"a">>, <<"b", "<">>, <<"c">>, Str(33, "x") }

\* texts handed to password.set(): empty (open network), 5 characters,
\* 8 characters, 64 characters
PasswordInputs == { <<>>, Str(5, "p"), Str(8, "q"), Str(64, "r") }

\* caller-supplied usage metadata: <<timestamp, connectionCount, useStatic>>
UsageInputs ==
    { <<10, 0, FALSE>>, <<10, 1, TRUE>>, <<20, 1, FALSE>>, <<30, 0, TRUE>> }

(***************************************************************************)
(* A SecureString member of a credential is kept as its content: the       *)
(* first _length characters of _data.  SecureString::set refuses a text    *)
(* that does not fit (length >= capacity) and the old content stays;       *)
(* otherwise strncpy copies the text up to its first NUL and the rest of   *)
(* the str.length() characters are NUL.  Readers take the content through  *)
(* c_str(), which ends at the first NUL.                                   *)
(***************************************************************************)
\* the NUL character
NUL == ""

\* the position of the terminator of str.c_str()
strlen(str) ==
    IF \E i \in 1..Len(str) : str[i] = NUL
    THEN (CHOOSE i \in 1..Len(str) :
            str[i] = NUL /\ \A j \in 1..(i - 1) : str[j] # NUL) - 1
    ELSE Len(str)

\* SecureString::set, on the content
SecureStringSet(old, capacity, str) ==
    IF Len(str) >= capacity THEN old
    ELSE [i \in 1..Len(str) |-> IF i <= strlen(str) THEN str[i] ELSE NUL]

\* the content read through c_str(): the characters before its first NUL
SecureStringText(content) == SubSeq(content, 1, strlen(content))

(***************************************************************************)
(* EnhancedCredential: the default constructor, and a credential as a      *)
(* caller builds it (ssid.set, password.set, assignments to the fields).   *)
(***************************************************************************)
EnhancedCredential ==
    [ ssid            |-> <<>>,
      password        |-> <<>>,
      useStatic       |-> FALSE,
      timestamp       |-> 0,
      connectionCount |-> 0,
      lastRSSI        |-> DefaultRSSI ]

MakeCredential(s, p, u, t, c) ==
    [ EnhancedCredential EXCEPT
        !.ssid            = SecureStringSet(<<>>, SsidCapacity, s),
        !.password        = SecureStringSet(<<>>, PasswordCapacity, p),
        !.useStatic       = u,
        !.timestamp       = t,
        !.connectionCount = c ]

\* the credentials handed to addCredential: every ssid/password pair with
\* the metadata of a first use, and every pair that fits the buffers and the
\* length rules with every metadata
CallerCredentials ==
    { MakeCredential(s, p, FALSE, 10, 0) : s \in SsidInputs, p \in PasswordInputs }
    \cup
    { MakeCredential(s, p, m[3], m[1], m[2]) :
        s \in { x \in SsidInputs : Len(x) \in 1..MaxSsidLength },
        p \in { x \in PasswordInputs :
                  Len(x) = 0 \/ Len(x) \in MinPasswordLength..MaxPasswordLength },
        m \in UsageInputs }

\* validate without the minimum password length
validateNoMinimum(cred) ==
    IF Len(cred.ssid) = 0 THEN "INVALID_PARAMETER"
    ELSE IF Len(cred.ssid) > MaxSsidLength THEN "INVALID_PARAMETER"
    ELSE IF Len(cred.password) > MaxPasswordLength THEN "INVALID_PARAMETER"
    ELSE "SUCCESS"

\* EnhancedCredential::validate
validate(cred) ==
    IF Len(cred.ssid) = 0 THEN "INVALID_PARAMETER"
    ELSE IF Len(cred.ssid) > MaxSsidLength THEN "INVALID_PARAMETER"
    ELSE IF Len(cred.password) > 0 /\ Len(cred.password) < MinPasswordLength
         THEN "INVALID_PARAMETER"
    ELSE IF Len(cred.password) > MaxPasswordLength THEN "INVALID_PARAMETER"
    ELSE "SUCCESS"

\* EnhancedCredential::updateStats, with now = millis()
updateStats(cred, now, rssi) ==
    [ cred EXCEPT !.timestamp = now,
                  !.connectionCount = cred.connectionCount + 1,
                  !.lastRSSI = rssi ]

(***************************************************************************)
(* The callers of the store.  Each public operation takes _credentialMutex *)
(* with a std::lock_guard, which is released when the operation returns.   *)
(***************************************************************************)
\* the callers
Threads == {1, 2}

\* a caller that has no call in progress and has made none
IdleOp ==
    [ name |-> "none",             \* the operation called
      cred |-> EnhancedCredential, \* the credential passed to addCredential
      ssid |-> <<>>,               \* the ssid passed
      it   |-> 0,                  \* the iterator find_if returned: an index, 0 for end()
      cut  |-> {},                 \* the members a copy in progress has written
      err  |-> "none",             \* the ACError returned
      seen |-> [ credentials |-> <<>>, initialized |-> FALSE ] ]
                                   \* the store as it was when the call took the mutex

\* the mutex is free and no caller is in a call; out is the credential
\* object each caller passes to getCredential to be filled
NoThreads ==
    [ mutex |-> 0,
      pc    |-> [t \in Threads |-> "out"],
      op    |-> [t \in Threads |-> IdleOp],
      out   |-> [t \in Threads |-> EnhancedCredential] ]

\* no SecureString object has been constructed
NoSecure ==
    [ state |-> "none", data |-> <<>>, capacity |-> 0, length |-> 0,
      op |-> "none", arg |-> <<>>, result |-> TRUE, before |-> <<>>,
      text |-> <<>> ]

(***************************************************************************)
(* The state of one AutoConnectCredentialEnhanced object, and a record of  *)
(* the last call made on it: its arguments, its result and its outputs.    *)
(***************************************************************************)
VARIABLES
    credentials,    \* _credentials, in vector order
    initialized,    \* _initialized
    maxCredentials, \* _maxCredentials
    lastOp,         \* the last call
    apConfig,       \* AutoConnectCore::_apConfig, the active configuration
    now,            \* millis(), a 32-bit counter
    conn,           \* the connectToWiFi call in progress, or the last one
    call,           \* the last call of a portal, configuration or validation function
    threads,        \* the callers of the store: the mutex and each caller's position
    secure,         \* one SecureString object: its buffer, capacity and length
    configCalls,    \* the callers of the configuration: _configMutex and each caller's position
    timer           \* one TimeoutHelper object, millis() and what its readers returned

storeVars == <<credentials, initialized, maxCredentials, lastOp>>
coreVars ==
    <<apConfig, now, conn, call, threads, secure, configCalls, timer>>
vars ==
    <<credentials, initialized, maxCredentials, lastOp, apConfig, now, conn, call,
      threads, secure, configCalls, timer>>

NoOp ==
    [ op       |-> "none",
      cred     |-> EnhancedCredential,  \* addCredential's argument
      ssid     |-> <<>>,                \* getCredential's / removeCredential's argument
      err      |-> "none",              \* the ACError returned, if the call returns one
      loaded   |-> FALSE,               \* _loadExistingCredentials was called
      saved    |-> FALSE,               \* _saveCredentials was called
      replaced |-> FALSE,               \* an entry of the same ssid was overwritten
      evicted  |-> FALSE,               \* the oldest entry was erased to make space
      sizeBefore |-> 0,                 \* clearAll: the number of entries before the call
      outCred  |-> EnhancedCredential,  \* getCredential's output parameter
      outSsids |-> <<>>,                \* getAvailableSSIDs' result
      outJson  |-> <<>> ]               \* exportToJSON's output parameter

\* _loadExistingCredentials: a stub that loads nothing and succeeds
_loadExistingCredentials == "SUCCESS"

\* _saveCredentials: a stub that stores nothing and succeeds
_saveCredentials == "SUCCESS"

\* std::find_if by strcmp(cred.ssid, ssid) == 0: the first matching index, 0 for end()
FindSsid(creds, ssid) ==
    LET text == SecureStringText(ssid)
        same(i) == SecureStringText(creds[i].ssid) = text
    IN  IF \E i \in 1..Len(creds) : same(i)
        THEN CHOOSE i \in 1..Len(creds) :
                same(i) /\ \A j \in 1..(i - 1) : ~same(j)
        ELSE 0

\* min_element with the comparison reversed: the first largest
MinElementReversed(creds) ==
    CHOOSE i \in 1..Len(creds) :
        /\ \A j \in 1..Len(creds) : creds[i].timestamp >= creds[j].timestamp
        /\ \A j \in 1..(i - 1) : creds[j].timestamp < creds[i].timestamp

\* a min_element that returns the last smallest
MinElementLast(creds) ==
    CHOOSE i \in 1..Len(creds) :
        /\ \A j \in 1..Len(creds) : creds[i].timestamp <= creds[j].timestamp
        /\ \A j \in (i + 1)..Len(creds) : creds[j].timestamp > creds[i].timestamp

\* std::min_element with a.timestamp < b.timestamp: the first smallest
MinElement(creds) ==
    CHOOSE i \in 1..Len(creds) :
        /\ \A j \in 1..Len(creds) : creds[i].timestamp <= creds[j].timestamp
        /\ \A j \in 1..(i - 1) : creds[j].timestamp > creds[i].timestamp

\* erase of begin() whatever the iterator
EraseFirst(creds, k) == Tail(creds)

\* std::vector::erase of the element at index k
Erase(creds, k) ==
    [i \in 1..(Len(creds) - 1) |-> IF i < k THEN creds[i] ELSE creds[i + 1]]

(***************************************************************************)
(* The enhanced core (src/src/AutoConnectCoreEnhanced.hpp): the validators *)
(* of InputSanitizer, NetworkConfig, TimeoutHelper and the active          *)
(* configuration.  An IPAddress is its 32-bit value, 0 when it is not set. *)
(*                                                                         *)
(* millis() is a 32-bit count of milliseconds.  The clock is read in ticks *)
(* of 4 ms, so that the whole range of the counter fits the integers of    *)
(* the model checker: the variable now holds millis() / 4 and wraps at     *)
(* 2^32 / 4 = 2^30 ticks.  Durations and timeouts stay in milliseconds.    *)
(***************************************************************************)
\* the ticks in the range of the 32-bit unsigned long millis() returns
TicksPerWrap == 1073741824
\* connectToWiFi: _checkMemoryAvailable(4096)
ConnectMemory == 4096
\* beginWithResult: _checkMemoryAvailable(8192)
BeginMemory == 8192
\* NetworkConfig::validate: connectionTimeoutMs < 5000
MinConnectionTimeout == 5000
\* NetworkConfig::validate: connectionTimeoutMs > 300000
MaxConnectionTimeout == 300000
\* beginWithResult: timeout > 300000
MaxBeginTimeout == 300000
\* isValidHostname: hostname.length() > 63
MaxHostnameLength == 63
\* connectToWiFi: delay(1000)
RetryDelay == 1000

\* the characters isalnum accepts
Alnum ==
    { "a", "b", "c", "d", "e", "f", "g", "h", "i", "j", "k", "l", "m",
      "n", "o", "p", "q", "r", "s", "t", "u", "v", "w", "x", "y", "z",
      "A", "B", "C", "D", "E", "F", "G", "H", "I", "J", "K", "L", "M",
      "N", "O", "P", "Q", "R", "S", "T", "U", "V", "W", "X", "Y", "Z",
      "0", "1", "2", "3", "4", "5", "6", "7", "8", "9" }

\* isValidSSID without the upper limit
isValidSSIDNonEmpty(ssid) == Len(ssid) > 0

\* InputSanitizer::isValidSSID
isValidSSID(ssid) == Len(ssid) > 0 /\ Len(ssid) <= MaxSsidLength

\* InputSanitizer::isValidPassword
isValidPassword(password) ==
    Len(password) = 0
    \/ (Len(password) >= MinPasswordLength /\ Len(password) <= MaxPasswordLength)

\* a hostname check that does not look at the last character
isValidHostnameAnyEnd(hostname) ==
    IF Len(hostname) = 0 \/ Len(hostname) > MaxHostnameLength THEN FALSE
    ELSE IF \E i \in 1..Len(hostname) : hostname[i] \notin Alnum /\ hostname[i] # "-"
         THEN FALSE
    ELSE hostname[1] # "-"

\* InputSanitizer::isValidHostname
isValidHostname(hostname) ==
    IF Len(hostname) = 0 \/ Len(hostname) > MaxHostnameLength THEN FALSE
    ELSE IF \E i \in 1..Len(hostname) : hostname[i] \notin Alnum /\ hostname[i] # "-"
         THEN FALSE
    ELSE hostname[1] # "-" /\ hostname[Len(hostname)] # "-"

\* IPAddress::isSet
isSet(ip) == ip # 0

\* NetworkConfig(): the defaults of the constructor
NetworkConfig ==
    [ ssid                |-> <<>>,
      password            |-> <<>>,
      hostname            |-> <<>>,
      staticIP            |-> 0,
      gateway             |-> 0,
      subnet              |-> 0,
      dns1                |-> 0,
      dns2                |-> 0,
      useStaticIP         |-> FALSE,
      connectionTimeoutMs |-> 30000,
      maxRetries          |-> 3 ]

\* validate without the range of connectionTimeoutMs
NetworkConfigValidateNoRange(cfg) ==
    IF ~isValidSSID(cfg.ssid) THEN "INVALID_PARAMETER"
    ELSE IF ~isValidPassword(cfg.password) THEN "INVALID_PARAMETER"
    ELSE IF Len(cfg.hostname) # 0 /\ ~isValidHostname(cfg.hostname)
         THEN "INVALID_PARAMETER"
    ELSE "SUCCESS"

\* NetworkConfig::validate
NetworkConfigValidate(cfg) ==
    IF ~isValidSSID(cfg.ssid) THEN "INVALID_PARAMETER"
    ELSE IF ~isValidPassword(cfg.password) THEN "INVALID_PARAMETER"
    ELSE IF Len(cfg.hostname) # 0 /\ ~isValidHostname(cfg.hostname)
         THEN "INVALID_PARAMETER"
    ELSE IF cfg.connectionTimeoutMs < MinConnectionTimeout
            \/ cfg.connectionTimeoutMs > MaxConnectionTimeout
         THEN "INVALID_PARAMETER"
    ELSE "SUCCESS"

\* _checkMemoryAvailable(required), with available = ESP.getFreeHeap()
_checkMemoryAvailable(available, required) == available >= required

\* the ticks that make up at least ms milliseconds
Ticks(ms) == (ms + 3) \div 4

\* the clock after ms milliseconds (a multiple of 4) have passed
Advance(t, ms) == (t + (ms \div 4)) % TicksPerWrap

\* TimeoutHelper::elapsed, with t = millis(), in ticks: unsigned subtraction
elapsed(startTime, t) == (t - startTime) % TicksPerWrap

\* TimeoutHelper::isExpired: elapsed milliseconds >= timeout
isExpired(startTime, timeout, t) == elapsed(startTime, t) >= Ticks(timeout)

\* the part of _apConfig the network and portal settings are written to,
\* and the realm of the active configuration
DefaultApConfig ==
    [ hostName      |-> <<>>,
      staip         |-> 0,
      staGateway    |-> 0,
      staNetmask    |-> 0,
      dns1          |-> 0,
      dns2          |-> 0,
      apid          |-> <<>>,
      psk           |-> <<>>,
      apip          |-> 0,
      gateway       |-> 0,
      netmask       |-> 0,
      channel       |-> 0,
      hidden        |-> 0,
      portalTimeout |-> 0,
      auth          |-> "AC_AUTH_NONE",
      username      |-> <<>>,
      password      |-> <<>>,
      realm         |-> <<>> ]

\* setHostname(hostname): <<result, _apConfig afterwards>>
setHostname(cfg, hostname) ==
    IF ~isValidHostname(hostname)
    THEN <<"INVALID_PARAMETER", cfg>>
    ELSE <<"SUCCESS", [cfg EXCEPT !.hostName = hostname]>>

\* setStaticIP that writes the addresses whether they are set or not
setStaticIPUnchecked(cfg, ip, gateway, subnet) ==
    <<"SUCCESS", [cfg EXCEPT !.staip = ip, !.staGateway = gateway,
                             !.staNetmask = subnet]>>

\* setStaticIP(ip, gateway, subnet): <<result, _apConfig afterwards>>
setStaticIP(cfg, ip, gateway, subnet) ==
    IF ~isSet(ip) \/ ~isSet(gateway) \/ ~isSet(subnet)
    THEN <<"INVALID_PARAMETER", cfg>>
    ELSE <<"SUCCESS", [cfg EXCEPT !.staip = ip, !.staGateway = gateway,
                                  !.staNetmask = subnet]>>

\* setDNS(dns1, dns2): <<result, _apConfig afterwards>>
setDNS(cfg, dns1, dns2) ==
    IF ~isSet(dns1)
    THEN <<"INVALID_PARAMETER", cfg>>
    ELSE <<"SUCCESS", [cfg EXCEPT !.dns1 = dns1,
                                  !.dns2 = IF isSet(dns2) THEN dns2 ELSE cfg.dns2]>>

\* no connectToWiFi call has been made
IdleConn ==
    [ pc            |-> "idle",         \* "idle", "staticIP" (before setStaticIP),
                                        \* "dns" (before setDNS), "loop" (at the
                                        \* loop condition), "delay" (before
                                        \* delay(1000)), "done"
      networkConfig |-> NetworkConfig,  \* the argument of the call
      startTime     |-> 0,              \* TimeoutHelper::_startTime
      budget        |-> 0,              \* TimeoutHelper::_timeout
      retries       |-> 0,              \* the local retries
      attempts      |-> 0,              \* the beginWithResult calls made
      lastAttempt   |-> "none",         \* the result of the last beginWithResult
      began         |-> FALSE,          \* the last beginWithResult reached begin()
      outcome       |-> [success |-> FALSE, AC_TIMEOUT |-> FALSE,
                         AC_CAPTIVEPORTAL |-> FALSE],
                                        \* what begin() and portalStatus() gave then
      hostnameErr   |-> "none",         \* the result of setHostname, if called
      expired       |-> FALSE,          \* timeout.isExpired() when the loop was left
      err           |-> "none",         \* the ACError returned
      reported      |-> -1,             \* the attempt count in the returned message
      wrote         |-> {} ]            \* the setters whose writes to _apConfig
                                        \* the call has made

\* no portal, configuration or validation function has been called
NoCall ==
    [ op      |-> "none",   \* the operation called
      arg     |-> <<>>,     \* the configuration passed
      err     |-> "none",   \* the ACError returned
      began   |-> FALSE,    \* begin() or config() was invoked
      success |-> FALSE ]   \* the bool that begin(), config() or the predicate returned

\* a caller of the configuration that has no call in progress and has made none
IdleConfigCall ==
    [ name      |-> "none",          \* the function called
      arg       |-> <<>>,            \* its argument
      err       |-> "none",          \* the ACError returned
      seen      |-> DefaultApConfig, \* _apConfig when the call took the mutex
      oldConfig |-> DefaultApConfig, \* configWithValidation: the local oldConfig
      success   |-> FALSE ]          \* configWithValidation: what config() returned

\* _configMutex is free and no caller is in a call
NoConfigCalls ==
    [ mutex |-> 0,
      pc    |-> [t \in Threads |-> "out"],
      op    |-> [t \in Threads |-> IdleConfigCall] ]

\* no TimeoutHelper object has been constructed
NoTimer ==
    [ state     |-> "none",
      helper    |-> [ _startTime |-> <<0, 0>>, _timeout |-> <<0, 0>> ],
      timeoutMs |-> 0,       \* the constructor's argument
      millis    |-> <<0, 0>>,  \* millis() at the last read
      passed    |-> 0,       \* the milliseconds that have passed since the timer was started
      polls     |-> 0,       \* the reads made after time has passed
      isExpired |-> FALSE,   \* what isExpired() returned
      elapsed   |-> <<0, 0>>,  \* what elapsed() returned
      remaining |-> <<0, 0>> ] \* what remaining() returned

Init ==
    /\ credentials = <<>>
    /\ initialized = FALSE
    /\ maxCredentials = MaxCredentials
    /\ lastOp = NoOp
    /\ apConfig = DefaultApConfig
    /\ now = 0
    /\ conn = IdleConn
    /\ call = NoCall
    /\ threads = NoThreads
    /\ secure = NoSecure
    /\ configCalls = NoConfigCalls
    /\ timer = NoTimer

\* initialize without the early return of an initialized store
InitializeAgain ==
    /\ lastOp' = [NoOp EXCEPT !.op = "initialize", !.err = "SUCCESS", !.loaded = TRUE]
    /\ initialized' = TRUE
    /\ UNCHANGED <<credentials, maxCredentials>>

\* initialize()
Initialize ==
    /\ IF initialized
       THEN /\ lastOp' = [NoOp EXCEPT !.op = "initialize", !.err = "SUCCESS"]
            /\ UNCHANGED <<credentials, initialized>>
       ELSE /\ lastOp' = [NoOp EXCEPT !.op = "initialize", !.err = "SUCCESS",
                                      !.loaded = TRUE]
            /\ initialized' = TRUE
            /\ UNCHANGED credentials
    /\ UNCHANGED maxCredentials

\* addCredential that never makes space
addCredentialNoEviction(creds, cred, max) ==
    LET it == FindSsid(creds, cred.ssid) IN
    IF it # 0 THEN [creds EXCEPT ![it] = cred] ELSE Append(creds, cred)

\* addCredential that never looks the ssid up
addCredentialNoLookup(creds, cred, max) ==
    IF Len(creds) >= max
    THEN Append(Erase(creds, MinElement(creds)), cred)
    ELSE Append(creds, cred)

\* addCredential that makes space before it looks the ssid up
addCredentialEvictionFirst(creds, cred, max) ==
    LET kept == IF Len(creds) >= max THEN Erase(creds, MinElement(creds)) ELSE creds
        it   == FindSsid(kept, cred.ssid)
    IN  IF it # 0 THEN [kept EXCEPT ![it] = cred] ELSE Append(kept, cred)

\* addCredential(): the collection after the lookup, the replacement or the
\* eviction and the push_back
addCredentialCollection(creds, cred, max) ==
    LET it == FindSsid(creds, cred.ssid) IN
    IF it # 0
    THEN [creds EXCEPT ![it] = cred]
    ELSE IF Len(creds) >= max
         THEN Append(Erase(creds, MinElement(creds)), cred)
         ELSE Append(creds, cred)

\* addCredential(credential)
AddCredential ==
    \E cred \in CallerCredentials :
        /\ IF validate(cred) # "SUCCESS"
           THEN /\ lastOp' = [NoOp EXCEPT !.op = "addCredential", !.cred = cred,
                                          !.err = validate(cred)]
                /\ UNCHANGED credentials
           ELSE IF ~initialized
           THEN /\ lastOp' = [NoOp EXCEPT !.op = "addCredential", !.cred = cred,
                                          !.err = "INVALID_STATE"]
                /\ UNCHANGED credentials
           ELSE /\ credentials' = addCredentialCollection(credentials, cred, maxCredentials)
                /\ lastOp' = [NoOp EXCEPT !.op = "addCredential", !.cred = cred,
                                          !.err = _saveCredentials,
                                          !.saved = TRUE,
                                          !.replaced = FindSsid(credentials, cred.ssid) # 0,
                                          !.evicted = /\ FindSsid(credentials, cred.ssid) = 0
                                                      /\ Len(credentials) >= maxCredentials]
        /\ UNCHANGED <<initialized, maxCredentials>>

\* getCredential(ssid, credential): the output parameter is a
\* default-constructed credential of the caller
GetCredential ==
    \E s \in SsidInputs :
        /\ IF Len(s) = 0
           THEN lastOp' = [NoOp EXCEPT !.op = "getCredential", !.ssid = s,
                                       !.err = "INVALID_PARAMETER"]
           ELSE IF ~initialized
           THEN lastOp' = [NoOp EXCEPT !.op = "getCredential", !.ssid = s,
                                       !.err = "INVALID_STATE"]
           ELSE IF FindSsid(credentials, s) = 0
           THEN lastOp' = [NoOp EXCEPT !.op = "getCredential", !.ssid = s,
                                       !.err = "CREDENTIAL_LOAD_ERROR"]
           ELSE lastOp' = [NoOp EXCEPT !.op = "getCredential", !.ssid = s,
                                       !.err = "SUCCESS",
                                       !.outCred = credentials[FindSsid(credentials, s)]]
        /\ UNCHANGED <<credentials, initialized, maxCredentials>>

\* removeCredential(ssid)
RemoveCredential ==
    \E s \in SsidInputs :
        /\ IF Len(s) = 0
           THEN /\ lastOp' = [NoOp EXCEPT !.op = "removeCredential", !.ssid = s,
                                          !.err = "INVALID_PARAMETER"]
                /\ UNCHANGED credentials
           ELSE IF ~initialized
           THEN /\ lastOp' = [NoOp EXCEPT !.op = "removeCredential", !.ssid = s,
                                          !.err = "INVALID_STATE"]
                /\ UNCHANGED credentials
           ELSE IF FindSsid(credentials, s) = 0
           THEN /\ lastOp' = [NoOp EXCEPT !.op = "removeCredential", !.ssid = s,
                                          !.err = "CREDENTIAL_LOAD_ERROR"]
                /\ UNCHANGED credentials
           ELSE /\ credentials' = Erase(credentials, FindSsid(credentials, s))
                /\ lastOp' = [NoOp EXCEPT !.op = "removeCredential", !.ssid = s,
                                          !.err = _saveCredentials,
                                          !.saved = TRUE]
        /\ UNCHANGED <<initialized, maxCredentials>>

\* the ssids of the collection, in vector order
SsidsOf(creds) == [i \in 1..Len(creds) |-> SecureStringText(creds[i].ssid)]

\* the comparator with the comparison reversed
MoreRecentReversed(creds, a, b) ==
    LET credA == FindSsid(creds, a)
        credB == FindSsid(creds, b)
    IN  IF credA # 0 /\ credB # 0
        THEN creds[credA].timestamp < creds[credB].timestamp
        ELSE FALSE

\* the comparator handed to std::sort: a goes before b
MoreRecent(creds, a, b) ==
    LET credA == FindSsid(creds, a)
        credB == FindSsid(creds, b)
    IN  IF credA # 0 /\ credB # 0
        THEN creds[credA].timestamp > creds[credB].timestamp
        ELSE FALSE

\* the results std::sort may give: the rearrangements of the ssids in which
\* no element goes before an earlier one (the order of equivalent elements
\* is unspecified)
SortedSsids(creds) ==
    LET n == Len(creds)
        Perms == { f \in [1..n -> 1..n] : \A i, j \in 1..n : i # j => f[i] # f[j] }
    IN  { [i \in 1..n |-> SecureStringText(creds[f[i]].ssid)] : f \in
            { g \in Perms : \A i, j \in 1..n :
                i < j => ~MoreRecent(creds, creds[g[j]].ssid, creds[g[i]].ssid) } }

\* getAvailableSSIDs()
GetAvailableSSIDs ==
    /\ \E ssids \in SortedSsids(credentials) :
        lastOp' = [NoOp EXCEPT !.op = "getAvailableSSIDs", !.outSsids = ssids]
    /\ UNCHANGED <<credentials, initialized, maxCredentials>>

\* clearAll that refuses an empty store
ClearAllNotEmpty ==
    /\ credentials' = <<>>
    /\ lastOp' = IF Len(credentials) = 0
                 THEN [NoOp EXCEPT !.op = "clearAll", !.err = "CREDENTIAL_STORE_ERROR",
                                   !.sizeBefore = Len(credentials)]
                 ELSE [NoOp EXCEPT !.op = "clearAll", !.err = _saveCredentials,
                                   !.saved = TRUE,
                                   !.sizeBefore = Len(credentials)]
    /\ UNCHANGED <<initialized, maxCredentials>>

\* clearAll()
ClearAll ==
    /\ credentials' = <<>>
    /\ lastOp' = [NoOp EXCEPT !.op = "clearAll", !.err = _saveCredentials,
                              !.saved = TRUE,
                              !.sizeBefore = Len(credentials)]
    /\ UNCHANGED <<initialized, maxCredentials>>

\* String::replace(find, with) on every occurrence of the character
RECURSIVE Replace(_, _, _)
Replace(str, ch, with) ==
    IF str = <<>> THEN <<>>
    ELSE (IF Head(str) = ch THEN with ELSE <<Head(str)>>) \o Replace(Tail(str), ch, with)

\* InputSanitizer::sanitizeHTML
sanitizeHTML(input) ==
    LET c1 == Replace(input, "&", <<"&", "a", "m", "p", ";">>)
        c2 == Replace(c1, "<", <<"&", "l", "t", ";">>)
        c3 == Replace(c2, ">", <<"&", "g", "t", ";">>)
        c4 == Replace(c3, "\"", <<"&", "q", "u", "o", "t", ";">>)
        c5 == Replace(c4, "'", <<"&", "#", "x", "2", "7", ";">>)
    IN  c5

\* an export entry that carries the password too
ExportEntryWithPassword(cred) ==
    << <<"ssid", sanitizeHTML(SecureStringText(cred.ssid))>>,
       <<"password", sanitizeHTML(cred.password)>>,
       <<"useStatic", IF cred.useStatic THEN "true" ELSE "false">>,
       <<"timestamp", cred.timestamp>>,
       <<"connectionCount", cred.connectionCount>> >>

\* one entry of the export: the keys appended, in order, with their values
ExportEntry(cred) ==
    << <<"ssid", sanitizeHTML(SecureStringText(cred.ssid))>>,
       <<"useStatic", IF cred.useStatic THEN "true" ELSE "false">>,
       <<"timestamp", cred.timestamp>>,
       <<"connectionCount", cred.connectionCount>> >>

\* exportToJSON(jsonOutput)
ExportToJSON ==
    /\ lastOp' = [NoOp EXCEPT !.op = "exportToJSON", !.err = "SUCCESS",
                              !.outJson = [i \in 1..Len(credentials) |->
                                              ExportEntry(credentials[i])]]
    /\ UNCHANGED <<credentials, initialized, maxCredentials>>

Next ==
    \/ Initialize /\ UNCHANGED coreVars
    \/ ClearAll /\ UNCHANGED coreVars
    \/ ExportToJSON /\ UNCHANGED coreVars
    \/ GetAvailableSSIDs /\ UNCHANGED coreVars
    \/ GetCredential /\ UNCHANGED coreVars
    \/ RemoveCredential /\ UNCHANGED coreVars
    \/ AddCredential /\ UNCHANGED coreVars

Spec == Init /\ [][Next]_vars

(***************************************************************************)
(* getAvailableSSIDs on its own: the store holds any collection of up to   *)
(* MaxListed entries with distinct ssids and the call is made on it.       *)
(***************************************************************************)
MaxListed == 3

ListedEntries ==
    { MakeCredential(s, <<>>, FALSE, t, 0) :
        s \in { x \in SsidInputs : Len(x) \in 1..MaxSsidLength },
        t \in {10, 20, 30} }

ListedCollections ==
    { c \in UNION { [1..n -> ListedEntries] : n \in 0..MaxListed } :
        \A i, j \in 1..Len(c) : i # j => c[i].ssid # c[j].ssid }

ListInit ==
    /\ credentials \in ListedCollections
    /\ initialized = TRUE
    /\ maxCredentials = MaxListed
    /\ lastOp = NoOp
    /\ apConfig = DefaultApConfig
    /\ now = 0
    /\ conn = IdleConn
    /\ call = NoCall
    /\ threads = NoThreads
    /\ secure = NoSecure
    /\ configCalls = NoConfigCalls
    /\ timer = NoTimer

ListNext == GetAvailableSSIDs /\ UNCHANGED coreVars

SpecList == ListInit /\ [][ListNext]_vars

(***************************************************************************)
(* connectToWiFi.  The call is followed through its positions.  It holds   *)
(* _configMutex only inside setHostname, setStaticIP and setDNS, one after  *)
(* the other, and holds nothing while beginWithResult and delay block, so   *)
(* each of these is a step of its own and the setters of other callers run  *)
(* between any two of them.  ESP.getFreeHeap(), begin() with                *)
(* portalStatus(), and the time an attempt blocks are read from the         *)
(* environment at each step.  The store holds a credential for the network  *)
(* the caller connects to.                                                  *)
(***************************************************************************)
\* the values ESP.getFreeHeap() reports
HeapInputs == { 1000, 4000, 5000, 9000 }

\* what begin() returns and the flags portalStatus() reports afterwards
BeginOutcomes ==
    { [success |-> TRUE, AC_TIMEOUT |-> FALSE, AC_CAPTIVEPORTAL |-> FALSE] }
    \cup { [success |-> FALSE, AC_TIMEOUT |-> t, AC_CAPTIVEPORTAL |-> p] :
             t \in BOOLEAN, p \in BOOLEAN }

\* the milliseconds begin() blocks, given the timeout it is passed
DurationInputs(timeout) == { 400, 4000, timeout }

\* a configuration that passes validate and has the retry settings r
ValidConfig(t, r) ==
    [NetworkConfig EXCEPT !.ssid = <<"a">>, !.password = Str(8, "q"),
                          !.connectionTimeoutMs = t, !.maxRetries = r]

\* a configuration with the static addresses ip, gw, sn and the DNS d1, d2
StaticConfig(h, ip, gw, sn, d1, d2) ==
    [ValidConfig(10000, 3) EXCEPT !.hostname = h, !.useStaticIP = TRUE,
                                  !.staticIP = ip, !.gateway = gw, !.subnet = sn,
                                  !.dns1 = d1, !.dns2 = d2]

\* the configurations callers pass to connectToWiFi
ConfigInputs ==
    { ValidConfig(10000, 3), ValidConfig(10000, 5), ValidConfig(5000, 1),
      ValidConfig(30000, 3), ValidConfig(10000, 0), ValidConfig(300000, 2),
      ValidConfig(4996, 3), ValidConfig(300004, 3),
      [ValidConfig(10000, 3) EXCEPT !.ssid = <<>>],
      [ValidConfig(10000, 3) EXCEPT !.password = Str(5, "p")],
      [ValidConfig(10000, 3) EXCEPT !.hostname = <<"-", "h">>],
      [ValidConfig(10000, 3) EXCEPT !.hostname = <<"h">>],
      [ValidConfig(10000, 3) EXCEPT !.staticIP = 1],
      [StaticConfig(<<"h">>, 1, 2, 3, 4, 5) EXCEPT !.ssid = <<>>],
      StaticConfig(<<>>, 1, 2, 3, 0, 0), StaticConfig(<<>>, 1, 2, 3, 4, 0),
      StaticConfig(<<"h">>, 1, 2, 3, 4, 5), StaticConfig(<<"h">>, 1, 0, 3, 4, 5),
      StaticConfig(<<>>, 0, 0, 0, 0, 0) }

\* a beginWithResult that reports the captive portal as a failed connection
beginWithResultPortalFails(ssid, passphrase, timeout, available, outcome) ==
    IF ~_checkMemoryAvailable(available, BeginMemory) THEN "MEMORY_INSUFFICIENT"
    ELSE IF ~isValidSSID(ssid) THEN "INVALID_PARAMETER"
    ELSE IF ~isValidPassword(passphrase) THEN "INVALID_PARAMETER"
    ELSE IF timeout > MaxBeginTimeout THEN "INVALID_PARAMETER"
    ELSE IF outcome.success THEN "SUCCESS"
    ELSE IF outcome.AC_TIMEOUT THEN "WIFI_TIMEOUT"
    ELSE "WIFI_CONNECT_FAILED"

\* beginWithResult(ssid, passphrase, timeout), with the free heap it reads
\* and the outcome of begin()
beginWithResult(ssid, passphrase, timeout, available, outcome) ==
    IF ~_checkMemoryAvailable(available, BeginMemory) THEN "MEMORY_INSUFFICIENT"
    ELSE IF ~isValidSSID(ssid) THEN "INVALID_PARAMETER"
    ELSE IF ~isValidPassword(passphrase) THEN "INVALID_PARAMETER"
    ELSE IF timeout > MaxBeginTimeout THEN "INVALID_PARAMETER"
    ELSE IF outcome.success THEN "SUCCESS"
    ELSE IF outcome.AC_TIMEOUT THEN "WIFI_TIMEOUT"
    ELSE IF outcome.AC_CAPTIVEPORTAL THEN "SUCCESS"
    ELSE "WIFI_CONNECT_FAILED"

\* beginWithResult reaches its call of begin()
beginCalled(ssid, passphrase, timeout, available) ==
    /\ _checkMemoryAvailable(available, BeginMemory)
    /\ isValidSSID(ssid)
    /\ isValidPassword(passphrase)
    /\ timeout <= MaxBeginTimeout

\* a loop that stops one attempt short of maxRetries
loopConditionShort(retries, maxRetries, startTime, timeout, t) ==
    retries + 1 < maxRetries /\ ~isExpired(startTime, timeout, t)

\* the condition of the retry loop
loopCondition(retries, maxRetries, startTime, timeout, t) ==
    retries < maxRetries /\ ~isExpired(startTime, timeout, t)

\* setHostname called by another caller, at any time
SetHostname ==
    /\ \E hostname \in { <<"g">>, <<"g", "-">> } :
         apConfig' = setHostname(apConfig, hostname)[2]
    /\ UNCHANGED <<now, conn, call, storeVars, threads, secure, configCalls, timer>>

\* setStaticIP called by another caller, at any time
SetStaticIP ==
    /\ \E a \in { <<7, 8, 9>>, <<7, 0, 9>> } :
         apConfig' = setStaticIP(apConfig, a[1], a[2], a[3])[2]
    /\ UNCHANGED <<now, conn, call, storeVars, threads, secure, configCalls, timer>>

\* setDNS called by another caller, at any time
SetDNS ==
    /\ \E d \in { <<6, 0>>, <<0, 6>> } :
         apConfig' = setDNS(apConfig, d[1], d[2])[2]
    /\ UNCHANGED <<now, conn, call, storeVars, threads, secure, configCalls, timer>>

\* TimeoutHelper timeout(...); uint8_t retries = 0: the call is at the loop
EnterLoop(c) ==
    [c EXCEPT !.pc = "loop", !.startTime = now,
              !.budget = c.networkConfig.connectionTimeoutMs, !.retries = 0]

\* connectToWiFi up to the return of its setHostname: validation, the
\* memory check and the hostname; without static addresses the timer is
\* started and the loop is reached
ConnectToWiFi ==
    /\ conn.pc = "idle"
    /\ \E networkConfig \in ConfigInputs, available \in HeapInputs :
         LET validation == NetworkConfigValidate(networkConfig)
             hostnameResult ==
                 IF Len(networkConfig.hostname) # 0
                 THEN setHostname(apConfig, networkConfig.hostname)
                 ELSE <<"none", apConfig>>
             started == [IdleConn EXCEPT !.networkConfig = networkConfig]
             past == [started EXCEPT
                        !.hostnameErr = hostnameResult[1],
                        !.wrote = IF hostnameResult[1] = "SUCCESS"
                                  THEN {"setHostname"} ELSE {}]
         IN  IF validation # "SUCCESS"
             THEN /\ conn' = [started EXCEPT !.pc = "done", !.err = validation]
                  /\ apConfig' = apConfig
             ELSE IF ~_checkMemoryAvailable(available, ConnectMemory)
             THEN /\ conn' = [started EXCEPT !.pc = "done",
                                          !.err = "MEMORY_INSUFFICIENT"]
                  /\ apConfig' = apConfig
             ELSE /\ conn' = IF networkConfig.useStaticIP
                             THEN [past EXCEPT !.pc = "staticIP"]
                             ELSE EnterLoop(past)
                  /\ apConfig' = hostnameResult[2]
    /\ UNCHANGED <<now, call, storeVars, threads, secure, configCalls, timer>>

\* connectToWiFi: the call of setStaticIP; its failure is returned, and
\* with no DNS to set the timer is started and the loop is reached
ConnectStaticIP ==
    /\ conn.pc = "staticIP"
    /\ LET cfg == conn.networkConfig
           ipResult == setStaticIP(apConfig, cfg.staticIP, cfg.gateway,
                                   cfg.subnet)
       IN  /\ apConfig' = ipResult[2]
           /\ conn' = IF ipResult[1] # "SUCCESS"
                      THEN [conn EXCEPT !.pc = "done", !.err = ipResult[1]]
                      ELSE IF isSet(cfg.dns1)
                      THEN [conn EXCEPT !.pc = "dns",
                                        !.wrote = @ \cup {"setStaticIP"}]
                      ELSE EnterLoop([conn EXCEPT
                                        !.wrote = @ \cup {"setStaticIP"}])
    /\ UNCHANGED <<now, call, storeVars, threads, secure, configCalls, timer>>

\* connectToWiFi: the call of setDNS; then the timer is started and the
\* loop is reached
ConnectDNS ==
    /\ conn.pc = "dns"
    /\ LET cfg == conn.networkConfig
           dnsResult == setDNS(apConfig, cfg.dns1, cfg.dns2)
       IN  /\ apConfig' = dnsResult[2]
           /\ conn' = IF dnsResult[1] # "SUCCESS"
                      THEN [conn EXCEPT !.pc = "done", !.err = dnsResult[1]]
                      ELSE EnterLoop([conn EXCEPT !.wrote = @ \cup {"setDNS"}])
    /\ UNCHANGED <<now, call, storeVars, threads, secure, configCalls, timer>>

\* one pass of the retry loop up to its delay: the loop condition and
\* beginWithResult, then either the return of its success or retries++
ConnectAttempt ==
    /\ conn.pc = "loop"
    /\ loopCondition(conn.retries, conn.networkConfig.maxRetries,
                     conn.startTime, conn.budget, now)
    /\ \E available \in HeapInputs, outcome \in BeginOutcomes,
          duration \in DurationInputs(conn.networkConfig.connectionTimeoutMs) :
         LET cfg == conn.networkConfig
             result == beginWithResult(cfg.ssid, cfg.password,
                                       cfg.connectionTimeoutMs, available, outcome)
             called == beginCalled(cfg.ssid, cfg.password,
                                   cfg.connectionTimeoutMs, available)
             tried == [conn EXCEPT !.attempts = @ + 1,
                                   !.lastAttempt = result,
                                   !.began = called,
                                   !.outcome = outcome]
         IN  /\ now' = IF called THEN Advance(now, duration) ELSE now
             /\ conn' = IF result = "SUCCESS"
                        THEN [tried EXCEPT !.pc = "done", !.err = result]
                        ELSE [tried EXCEPT
                                !.retries = @ + 1,
                                !.pc = IF conn.retries + 1 < cfg.maxRetries
                                       THEN "delay" ELSE "loop"]
    /\ UNCHANGED <<apConfig, call, storeVars, threads, secure, configCalls, timer>>

\* delay(1000) between two passes of the loop
ConnectDelay ==
    /\ conn.pc = "delay"
    /\ now' = Advance(now, RetryDelay)
    /\ conn' = [conn EXCEPT !.pc = "loop"]
    /\ UNCHANGED <<apConfig, call, storeVars, threads, secure, configCalls, timer>>

\* a return after the loop that is only made once the timer has expired
ConnectGiveUpOnBudget ==
    /\ conn.pc = "loop"
    /\ isExpired(conn.startTime, conn.budget, now)
    /\ conn' = [conn EXCEPT !.pc = "done", !.err = "WIFI_CONNECT_FAILED",
                            !.reported = conn.retries, !.expired = TRUE]
    /\ UNCHANGED <<apConfig, now, call, storeVars, threads, secure, configCalls, timer>>

\* the return after the loop
ConnectGiveUp ==
    /\ conn.pc = "loop"
    /\ ~loopCondition(conn.retries, conn.networkConfig.maxRetries,
                      conn.startTime, conn.budget, now)
    /\ conn' = [conn EXCEPT !.pc = "done", !.err = "WIFI_CONNECT_FAILED",
                            !.reported = conn.retries,
                            !.expired = isExpired(conn.startTime,
                                                  conn.budget, now)]
    /\ UNCHANGED <<apConfig, now, call, storeVars, threads, secure, configCalls, timer>>

\* the clock at the call: early after boot, and 4 s before millis() wraps
ClockInputs == { 0, TicksPerWrap - 1000 }

ConnInit ==
    /\ credentials = <<MakeCredential(<<"a">>, Str(8, "q"), FALSE, 10, 0)>>
    /\ initialized = TRUE
    /\ maxCredentials = MaxCredentials
    /\ lastOp = NoOp
    /\ apConfig = DefaultApConfig
    /\ now \in ClockInputs
    /\ conn = IdleConn
    /\ call = NoCall
    /\ threads = NoThreads
    /\ secure = NoSecure
    /\ configCalls = NoConfigCalls
    /\ timer = NoTimer

ConnNext ==
    \/ SetHostname
    \/ SetStaticIP
    \/ SetDNS
    \/ ConnectToWiFi
    \/ ConnectStaticIP
    \/ ConnectDNS
    \/ ConnectAttempt
    \/ ConnectDelay
    \/ ConnectGiveUp

SpecConn == ConnInit /\ [][ConnNext]_vars

\* connectToWiFi runs on: every setter, beginWithResult and delay it calls
\* returns, and the statement after the loop is executed once the loop is
\* left
SpecConnFair ==
    /\ ConnInit
    /\ [][ConnNext]_vars
    /\ WF_vars(ConnectStaticIP)
    /\ WF_vars(ConnectDNS)
    /\ WF_vars(ConnectAttempt)
    /\ WF_vars(ConnectDelay)
    /\ WF_vars(ConnectGiveUp)

(***************************************************************************)
(* startCaptivePortal and configWithValidation.  Each call is one step:    *)
(* it reads ESP.getFreeHeap() once and calls begin() or config() at most   *)
(* once, whose outcome comes from the environment.                         *)
(***************************************************************************)
\* startCaptivePortal: _checkMemoryAvailable(8192)
PortalMemory == 8192
\* configWithValidation: _checkMemoryAvailable(1024)
ConfigMemory == 1024
\* PortalConfig::validate: channel < 1
MinChannel == 1
\* PortalConfig::validate: channel > 13
MaxChannel == 13
\* PortalConfig::validate: port < 80
MinPort == 80
\* PortalConfig::validate: port > 65535
MaxPort == 65535

\* PortalConfig(): the defaults of the constructor, the addresses as the
\* 32-bit values of IPAddress (first octet in the lowest byte)
PortalConfig ==
    [ apSSID       |-> <<>>,
      apPassword   |-> <<>>,
      apIP         |-> 172 + 217 * 256 + 28 * 65536 + 1 * 16777216,
      apGateway    |-> 172 + 217 * 256 + 28 * 65536 + 1 * 16777216,
      apSubnet     |-> 255 + 255 * 256 + 255 * 65536,
      channel      |-> 1,
      hidden       |-> FALSE,
      enableAuth   |-> FALSE,
      authRealm    |-> <<"A", "u", "t", "o", "C", "o", "n", "n", "e", "c", "t">>,
      authUsername |-> <<>>,
      authPassword |-> <<>>,
      timeoutMs    |-> 0,
      port         |-> 80 ]

\* validate that accepts every channel
PortalConfigValidateAnyChannel(cfg) ==
    IF ~isValidSSID(cfg.apSSID) THEN "INVALID_PARAMETER"
    ELSE IF ~isValidPassword(cfg.apPassword) THEN "INVALID_PARAMETER"
    ELSE IF cfg.port < MinPort \/ cfg.port > MaxPort THEN "INVALID_PARAMETER"
    ELSE "SUCCESS"

\* PortalConfig::validate
PortalConfigValidate(cfg) ==
    IF ~isValidSSID(cfg.apSSID) THEN "INVALID_PARAMETER"
    ELSE IF ~isValidPassword(cfg.apPassword) THEN "INVALID_PARAMETER"
    ELSE IF cfg.channel < MinChannel \/ cfg.channel > MaxChannel
         THEN "INVALID_PARAMETER"
    ELSE IF cfg.port < MinPort \/ cfg.port > MaxPort THEN "INVALID_PARAMETER"
    ELSE "SUCCESS"

\* a portal configuration that passes validate
ValidPortal ==
    [PortalConfig EXCEPT !.apSSID = <<"e">>, !.apPassword = Str(8, "k")]

\* a portal configuration with authentication settings
AuthPortal(enable, realm, user, pass) ==
    [ValidPortal EXCEPT !.enableAuth = enable, !.authRealm = realm,
                        !.authUsername = user, !.authPassword = pass]

\* the configurations callers pass to startCaptivePortal
PortalInputs ==
    { PortalConfig, ValidPortal,
      [ValidPortal EXCEPT !.apPassword = Str(5, "k")],
      [ValidPortal EXCEPT !.channel = 0],
      [ValidPortal EXCEPT !.channel = 14],
      [ValidPortal EXCEPT !.channel = 13, !.hidden = TRUE, !.timeoutMs = 60000],
      [ValidPortal EXCEPT !.port = 79],
      [ValidPortal EXCEPT !.port = 65535, !.apIP = 1, !.apGateway = 2,
                          !.apSubnet = 3],
      AuthPortal(TRUE, <<"R">>, <<"u">>, <<"w">>),
      AuthPortal(TRUE, <<"S">>, <<>>, <<>>),
      AuthPortal(FALSE, <<"T">>, <<"v">>, <<"x">>),
      [AuthPortal(TRUE, <<"R">>, <<"y">>, <<"z">>) EXCEPT !.channel = 14] }

\* startCaptivePortal: the assignments to _apConfig
applyPortalConfig(cfg, portalConfig) ==
    LET settings ==
            [cfg EXCEPT !.apid = portalConfig.apSSID,
                        !.psk = portalConfig.apPassword,
                        !.apip = portalConfig.apIP,
                        !.gateway = portalConfig.apGateway,
                        !.netmask = portalConfig.apSubnet,
                        !.channel = portalConfig.channel,
                        !.hidden = IF portalConfig.hidden THEN 1 ELSE 0,
                        !.portalTimeout = portalConfig.timeoutMs]
    IN  IF portalConfig.enableAuth
        THEN [settings EXCEPT !.auth = "AC_AUTH_DIGEST",
                              !.username = portalConfig.authUsername,
                              !.password = portalConfig.authPassword]
        ELSE settings

\* startCaptivePortal(portalConfig)
StartCaptivePortal ==
    /\ \E portalConfig \in PortalInputs, available \in HeapInputs,
          success \in BOOLEAN :
         LET validation == PortalConfigValidate(portalConfig)
             made == [NoCall EXCEPT !.op = "startCaptivePortal",
                                    !.arg = portalConfig]
         IN  IF validation # "SUCCESS"
             THEN /\ call' = [made EXCEPT !.err = validation]
                  /\ apConfig' = apConfig
             ELSE IF ~_checkMemoryAvailable(available, PortalMemory)
             THEN /\ call' = [made EXCEPT !.err = "MEMORY_INSUFFICIENT"]
                  /\ apConfig' = apConfig
             ELSE /\ apConfig' = applyPortalConfig(apConfig, portalConfig)
                  /\ call' = [made EXCEPT
                                !.began = TRUE,
                                !.success = success,
                                !.err = IF success THEN "SUCCESS"
                                        ELSE "PORTAL_START_FAILED"]
    /\ UNCHANGED <<now, conn, storeVars, threads, secure, configCalls, timer>>

\* the configurations callers pass to configWithValidation
ConfigObjects ==
    { DefaultApConfig,
      [DefaultApConfig EXCEPT !.hostName = <<"n">>, !.channel = 6] }

\* configWithValidation(config): config() reports success, with _apConfig
\* holding the new configuration, or failure, and then whatever it left in
\* _apConfig is replaced by oldConfig
ConfigWithValidation ==
    /\ \E config \in ConfigObjects, available \in HeapInputs,
          success \in BOOLEAN :
         LET oldConfig == apConfig
             made == [NoCall EXCEPT !.op = "configWithValidation",
                                    !.arg = config]
         IN  IF ~_checkMemoryAvailable(available, ConfigMemory)
             THEN /\ call' = [made EXCEPT !.err = "MEMORY_INSUFFICIENT"]
                  /\ apConfig' = apConfig
             ELSE IF ~success
             THEN /\ call' = [made EXCEPT !.began = TRUE, !.success = FALSE,
                                          !.err = "INVALID_PARAMETER"]
                  /\ apConfig' = oldConfig
             ELSE /\ call' = [made EXCEPT !.began = TRUE, !.success = TRUE,
                                          !.err = "SUCCESS"]
                  /\ apConfig' = config
    /\ UNCHANGED <<now, conn, storeVars, threads, secure, configCalls, timer>>

PortalInit ==
    /\ credentials = <<>>
    /\ initialized = FALSE
    /\ maxCredentials = MaxCredentials
    /\ lastOp = NoOp
    /\ apConfig = DefaultApConfig
    /\ now = 0
    /\ conn = IdleConn
    /\ call = NoCall
    /\ threads = NoThreads
    /\ secure = NoSecure
    /\ configCalls = NoConfigCalls
    /\ timer = NoTimer

PortalNext ==
    \/ StartCaptivePortal
    \/ ConfigWithValidation

SpecPortal == PortalInit /\ [][PortalNext]_vars

(***************************************************************************)
(* The validation functions on their own: one of them is applied to an     *)
(* input, which leaves the input and the result in the record call.  The   *)
(* functions keep no state, so a behaviour is a single application.        *)
(* enabledFeatures is a bit mask; a flag is tested by division.            *)
(***************************************************************************)
\* AC_FEATURE_FILESYSTEM (1U << 2)
AC_FEATURE_FILESYSTEM == 4
\* AC_FEATURE_DEBUG (1U << 7)
AC_FEATURE_DEBUG == 128
\* AC_FEATURES_FULL (0xFFU)
AC_FEATURES_FULL == 255
\* MemoryConfig::validate: jsonBufferSize < 1024
MinJsonBufferSize == 1024
\* MemoryConfig::validate: jsonBufferSize > 32768
MaxJsonBufferSize == 32768
\* AutoConnectAdvancedConfig::validate: maxFileSize < 1024
MinMaxFileSize == 1024

\* a & b on unsigned values, bit by bit
RECURSIVE BitAnd(_, _)
BitAnd(a, b) ==
    IF a = 0 \/ b = 0 THEN 0
    ELSE (a % 2) * (b % 2) + 2 * BitAnd(a \div 2, b \div 2)

\* AutoConnectAdvancedConfig::hasFeature: (enabledFeatures & feature) != 0
HasFeature(enabledFeatures, feature) == BitAnd(enabledFeatures, feature) # 0

\* MemoryConfig(): the fields validate reads, with their defaults
MemoryConfig == [ jsonBufferSize |-> 8192, maxStringLength |-> 4096 ]

\* MemoryConfig::validate
MemoryConfigValidate(cfg) ==
    IF cfg.jsonBufferSize < MinJsonBufferSize
       \/ cfg.jsonBufferSize > MaxJsonBufferSize
    THEN "INVALID_PARAMETER"
    ELSE IF cfg.maxStringLength > cfg.jsonBufferSize \div 2
    THEN "INVALID_PARAMETER"
    ELSE "SUCCESS"

\* AutoConnectAdvancedConfig::validate
AdvancedConfigValidate(cfg) ==
    IF NetworkConfigValidate(cfg.network) # "SUCCESS"
    THEN NetworkConfigValidate(cfg.network)
    ELSE IF PortalConfigValidate(cfg.portal) # "SUCCESS"
    THEN PortalConfigValidate(cfg.portal)
    ELSE IF MemoryConfigValidate(cfg.memory) # "SUCCESS"
    THEN MemoryConfigValidate(cfg.memory)
    ELSE IF HasFeature(cfg.enabledFeatures, AC_FEATURE_FILESYSTEM)
            /\ cfg.maxFileSize < MinMaxFileSize
    THEN "INVALID_PARAMETER"
    ELSE IF HasFeature(cfg.enabledFeatures, AC_FEATURE_DEBUG)
            /\ cfg.debug.enableFile
            /\ ~HasFeature(cfg.enabledFeatures, AC_FEATURE_FILESYSTEM)
    THEN "INVALID_PARAMETER"
    ELSE "SUCCESS"

\* the texts whose lengths lie at and around the limits of an ssid
SsidLengthInputs == { Str(n, "s") : n \in {0, 1, 2, 31, 32, 33, 34} }

\* the texts whose lengths lie at and around the limits of a password
PasswordLengthInputs == { Str(n, "w") : n \in {0, 1, 7, 8, 9, 62, 63, 64, 65} }

\* the network configurations validate is applied to
NetworkValidationInputs ==
    { [NetworkConfig EXCEPT !.ssid = s, !.password = p, !.hostname = h,
                            !.connectionTimeoutMs = t, !.useStaticIP = a[1],
                            !.staticIP = a[2], !.gateway = a[3], !.subnet = a[4]] :
        s \in { Str(n, "s") : n \in {0, 1, 32, 33} },
        p \in { Str(n, "w") : n \in {0, 7, 8, 63, 64} },
        h \in { <<>>, <<"h">>, <<"-", "h">>, <<"h", "_">> },
        t \in { 4999, 5000, 300000, 300001 },
        a \in { <<FALSE, 0, 0, 0>>, <<TRUE, 1, 2, 3>>, <<TRUE, 0, 2, 3>>,
                <<TRUE, 1, 0, 3>>, <<TRUE, 1, 2, 0>> } }

\* the aggregate configurations validate is applied to: every combination
\* of feature flags, with valid and invalid sections
AdvancedInputs ==
    { [ enabledFeatures |-> f, network |-> n, portal |-> p, memory |-> m,
        debug |-> [enableFile |-> d], maxFileSize |-> z ] :
        f \in 0..AC_FEATURES_FULL,
        n \in { NetworkConfig, ValidConfig(30000, 3) },
        p \in { ValidPortal, [ValidPortal EXCEPT !.channel = 14] },
        m \in { MemoryConfig, [MemoryConfig EXCEPT !.jsonBufferSize = 512],
                [MemoryConfig EXCEPT !.maxStringLength = 4097] },
        d \in BOOLEAN,
        z \in { 1023, 1024 * 1024 } }

\* the characters the hostnames are made of: a lower-case letter, an
\* upper-case letter, a digit, the hyphen and two characters that are
\* neither
HostnameChars == { "a", "Z", "5", "-", "_", "." }

\* the hostnames given to isValidHostname: every text of up to three of
\* these characters, and texts at and around the length limit
HostnameInputs ==
    UNION { [1..n -> HostnameChars] : n \in 0..3 }
    \cup { Str(n, "a") : n \in {62, 63, 64, 65} }
    \cup { Str(62, "a") \o <<c>> : c \in HostnameChars }
    \cup { <<c>> \o Str(62, "a") : c \in HostnameChars }
    \cup { Str(31, "a") \o <<c>> \o Str(31, "Z") : c \in HostnameChars }
    \cup { Str(63, "a") \o <<c>> : c \in HostnameChars }

\* NetworkConfig::validate applied to a configuration
ValidateNetwork ==
    /\ call.op = "none"
    /\ \E cfg \in NetworkValidationInputs :
         call' = [NoCall EXCEPT !.op = "NetworkConfig::validate", !.arg = cfg,
                                !.err = NetworkConfigValidate(cfg)]
    /\ UNCHANGED <<apConfig, now, conn, storeVars, threads, secure, configCalls, timer>>

\* AutoConnectAdvancedConfig::validate applied to a configuration
ValidateAdvanced ==
    /\ call.op = "none"
    /\ \E cfg \in AdvancedInputs :
         call' = [NoCall EXCEPT !.op = "AutoConnectAdvancedConfig::validate",
                                !.arg = cfg,
                                !.err = AdvancedConfigValidate(cfg)]
    /\ UNCHANGED <<apConfig, now, conn, storeVars, threads, secure, configCalls, timer>>

\* an ssid given to InputSanitizer::isValidSSID and, set as the ssid of a
\* new credential, to EnhancedCredential::validate
ValidateSsid ==
    /\ call.op = "none"
    /\ \E ssid \in SsidLengthInputs :
         call' = [NoCall EXCEPT
                    !.op = "ssid", !.arg = ssid,
                    !.success = isValidSSID(ssid),
                    !.err = validate(MakeCredential(ssid, <<>>, FALSE, 0, 0))]
    /\ UNCHANGED <<apConfig, now, conn, storeVars, threads, secure, configCalls, timer>>

\* a password given to InputSanitizer::isValidPassword and, set as the
\* password of a new credential with an ssid, to EnhancedCredential::validate
ValidatePassword ==
    /\ call.op = "none"
    /\ \E password \in PasswordLengthInputs :
         call' = [NoCall EXCEPT
                    !.op = "password", !.arg = password,
                    !.success = isValidPassword(password),
                    !.err = validate(MakeCredential(<<"a">>, password,
                                                    FALSE, 0, 0))]
    /\ UNCHANGED <<apConfig, now, conn, storeVars, threads, secure, configCalls, timer>>

\* a hostname given to InputSanitizer::isValidHostname
ValidateHostname ==
    /\ call.op = "none"
    /\ \E hostname \in HostnameInputs :
         call' = [NoCall EXCEPT
                    !.op = "hostname", !.arg = hostname,
                    !.success = isValidHostname(hostname)]
    /\ UNCHANGED <<apConfig, now, conn, storeVars, threads, secure, configCalls, timer>>

ValidateNext ==
    \/ ValidateNetwork
    \/ ValidateAdvanced
    \/ ValidateSsid
    \/ ValidatePassword
    \/ ValidateHostname

SpecValidate == PortalInit /\ [][ValidateNext]_vars

(***************************************************************************)
(* The store under two callers.  A call is followed through its           *)
(* positions: the checks made before the lock ("out"), waiting for the     *)
(* mutex ("lock"), the body in two parts ("find", "second") and the        *)
(* return that releases the lock_guard ("unlock").  The statements        *)
(* *it = credential and credential = *it name a copy assignment that        *)
(* EnhancedCredential does not have as written (the copy of its            *)
(* SecureString members is deleted), so nothing is assumed of the copy a   *)
(* build supplies but that it writes each member once: it is followed in   *)
(* two steps, and which members the first step has written is any subset   *)
(* of them.                                                                *)
(***************************************************************************)
\* the entry of an initialized store
StoredEntry == MakeCredential(<<"a">>, Str(8, "q"), FALSE, 10, 0)

\* the credentials the callers pass to addCredential
LockCredentials ==
    { MakeCredential(<<"a">>, Str(8, "n"), TRUE, 20, 1),
      MakeCredential(<<"b">>, <<>>, FALSE, 30, 0),
      MakeCredential(<<>>, <<>>, FALSE, 10, 0) }

\* the ssids the callers pass to getCredential and removeCredential
LockSsids == { <<>>, <<"a">>, <<"b">> }

\* the members of EnhancedCredential
Members == DOMAIN EnhancedCredential

\* the members a copy writes together: each SecureString by itself, and the
\* members of built-in type
CopyPieces ==
    { {"ssid"}, {"password"},
      {"useStatic", "timestamp", "connectionCount", "lastRSSI"} }

\* what a copy can have written when it is half done: any of the pieces
Cuts == { UNION pieces : pieces \in SUBSET CopyPieces }

\* the members of src in members are written to dst
Assign(dst, src, members) ==
    [m \in Members |-> IF m \in members THEN src[m] ELSE dst[m]]

\* the variables no call of a caller changes
lockFrame == <<maxCredentials, lastOp, apConfig, now, conn, call, secure,
               configCalls, timer>>

\* caller t returns err without having taken the mutex
ReturnEarly(t, op, err) ==
    threads' = [threads EXCEPT !.op[t] = [op EXCEPT !.err = err]]

\* caller t goes on to take the mutex
GoToLock(t, op) ==
    threads' = [threads EXCEPT !.op[t] = op, !.pc[t] = "lock"]

\* a call is made: the checks before the lock_guard
Call(t) ==
    /\ threads.pc[t] = "out"
    /\ \/ \E cred \in LockCredentials :
            LET op == [IdleOp EXCEPT !.name = "addCredential", !.cred = cred]
            IN  IF validate(cred) # "SUCCESS"
                THEN ReturnEarly(t, op, validate(cred))
                ELSE GoToLock(t, op)
       \/ \E ssid \in LockSsids, name \in {"getCredential", "removeCredential"} :
            LET op == [IdleOp EXCEPT !.name = name, !.ssid = ssid]
            IN  IF Len(ssid) = 0
                THEN ReturnEarly(t, op, "INVALID_PARAMETER")
                ELSE GoToLock(t, op)
       \/ \E name \in {"clearAll", "getAvailableSSIDs", "initialize"} :
            GoToLock(t, [IdleOp EXCEPT !.name = name])
    /\ UNCHANGED <<credentials, initialized, lockFrame>>

\* a lock_guard that does not wait for the mutex
LockNoWait(t) ==
    /\ threads.pc[t] = "lock"
    /\ threads' = [threads EXCEPT
                      !.mutex = t, !.pc[t] = "find",
                      !.op[t].seen = [ credentials |-> credentials,
                                       initialized |-> initialized ]]
    /\ UNCHANGED <<credentials, initialized, lockFrame>>

\* std::lock_guard<std::mutex> lock(_credentialMutex)
Lock(t) ==
    /\ threads.pc[t] = "lock"
    /\ threads.mutex = 0
    /\ threads' = [threads EXCEPT
                      !.mutex = t, !.pc[t] = "find",
                      !.op[t].seen = [ credentials |-> credentials,
                                       initialized |-> initialized ]]
    /\ UNCHANGED <<credentials, initialized, lockFrame>>

\* caller t has finished the body with err
Finish(t, err) ==
    threads' = [threads EXCEPT !.op[t].err = err, !.pc[t] = "unlock"]

\* the body of the call up to the middle of a copy
Body(t) ==
    LET op == threads.op[t]
        it == FindSsid(credentials, IF op.name = "addCredential"
                                    THEN op.cred.ssid ELSE op.ssid)
    IN
    /\ threads.pc[t] = "find"
    /\ CASE op.name = "initialize" ->
              /\ initialized' = TRUE
              /\ Finish(t, "SUCCESS")
              /\ UNCHANGED credentials
         [] op.name = "clearAll" ->
              /\ credentials' = <<>>
              /\ Finish(t, _saveCredentials)
              /\ UNCHANGED initialized
         [] op.name = "getAvailableSSIDs" ->
              /\ Finish(t, "SUCCESS")
              /\ UNCHANGED <<credentials, initialized>>
         [] op.name \in {"addCredential", "getCredential", "removeCredential"}
            /\ ~initialized ->
              /\ Finish(t, "INVALID_STATE")
              /\ UNCHANGED <<credentials, initialized>>
         [] op.name = "addCredential" /\ initialized /\ it # 0 ->
              /\ \E cut \in Cuts :
                    /\ credentials' =
                         [credentials EXCEPT ![it] = Assign(@, op.cred, cut)]
                    /\ threads' = [threads EXCEPT
                                      !.op[t].it = it, !.op[t].cut = cut,
                                      !.pc[t] = "second"]
              /\ UNCHANGED initialized
         [] op.name = "addCredential" /\ initialized /\ it = 0 ->
              /\ credentials' =
                   IF Len(credentials) >= maxCredentials
                   THEN Erase(credentials, MinElement(credentials))
                   ELSE credentials
              /\ threads' = [threads EXCEPT !.op[t].it = it, !.pc[t] = "second"]
              /\ UNCHANGED initialized
         [] op.name = "getCredential" /\ initialized ->
              /\ IF it = 0
                 THEN Finish(t, "CREDENTIAL_LOAD_ERROR")
                 ELSE \E cut \in Cuts :
                        threads' =
                          [threads EXCEPT
                             !.out[t] = Assign(@, credentials[it], cut),
                             !.op[t].it = it, !.op[t].cut = cut,
                             !.pc[t] = "second"]
              /\ UNCHANGED <<credentials, initialized>>
         [] op.name = "removeCredential" /\ initialized ->
              /\ IF it = 0
                 THEN /\ Finish(t, "CREDENTIAL_LOAD_ERROR")
                      /\ UNCHANGED credentials
                 ELSE /\ credentials' = Erase(credentials, it)
                      /\ Finish(t, _saveCredentials)
              /\ UNCHANGED initialized
    /\ UNCHANGED lockFrame

\* the rest of the body: the second part of the copy, or the push_back
BodySecond(t) ==
    LET op == threads.op[t]
        it == op.it
    IN
    /\ threads.pc[t] = "second"
    /\ IF op.name = "addCredential"
       THEN /\ credentials' =
                 IF it = 0 THEN Append(credentials, op.cred)
                 ELSE IF it <= Len(credentials)
                 THEN [credentials EXCEPT
                         ![it] = Assign(@, op.cred, Members \ op.cut)]
                 ELSE credentials
            /\ threads' = [threads EXCEPT
                              !.op[t].err = _saveCredentials,
                              !.op[t].cut = {}, !.pc[t] = "unlock"]
       ELSE /\ threads' =
                 [threads EXCEPT
                    !.out[t] = IF it <= Len(credentials)
                               THEN Assign(@, credentials[it],
                                           Members \ op.cut)
                               ELSE @,
                    !.op[t].err = "SUCCESS", !.op[t].cut = {},
                    !.pc[t] = "unlock"]
            /\ UNCHANGED credentials
    /\ UNCHANGED <<initialized, lockFrame>>

\* the return: the lock_guard goes out of scope
Unlock(t) ==
    /\ threads.pc[t] = "unlock"
    /\ threads' = [threads EXCEPT !.mutex = 0, !.pc[t] = "out"]
    /\ UNCHANGED <<credentials, initialized, lockFrame>>

LockInit ==
    /\ \/ credentials = <<>> /\ initialized = FALSE
       \/ credentials = <<StoredEntry>> /\ initialized = TRUE
    /\ maxCredentials = 1
    /\ lastOp = NoOp
    /\ apConfig = DefaultApConfig
    /\ now = 0
    /\ conn = IdleConn
    /\ call = NoCall
    /\ threads = NoThreads
    /\ secure = NoSecure
    /\ configCalls = NoConfigCalls
    /\ timer = NoTimer

LockNext ==
    \E t \in Threads :
        \/ Call(t)
        \/ Lock(t)
        \/ Body(t)
        \/ BodySecond(t)
        \/ Unlock(t)

SpecLock == LockInit /\ [][LockNext]_vars

(***************************************************************************)
(* configWithValidation and the setters under two callers.  Each of them   *)
(* takes _configMutex with a std::lock_guard; setHostname, setStaticIP and  *)
(* setDNS check their arguments before they take it.                        *)
(***************************************************************************)
\* the arguments the callers pass to the setters
SetterInputs ==
    { [name |-> "setHostname", arg |-> h] : h \in { <<"g">>, <<"g", "-">> } }
    \cup { [name |-> "setStaticIP", arg |-> a] : a \in { <<7, 8, 9>>, <<7, 0, 9>> } }
    \cup { [name |-> "setDNS", arg |-> d] : d \in { <<6, 0>>, <<0, 6>> } }

\* the setter s applied to the configuration cfg: <<result, _apConfig afterwards>>
applySetter(cfg, s) ==
    CASE s.name = "setHostname" -> setHostname(cfg, s.arg)
      [] s.name = "setStaticIP" -> setStaticIP(cfg, s.arg[1], s.arg[2], s.arg[3])
      [] s.name = "setDNS" -> setDNS(cfg, s.arg[1], s.arg[2])

\* caller t takes a step to the position pc with the call record op
ConfigStep(t, pc, op) ==
    configCalls' = [configCalls EXCEPT !.pc[t] = pc, !.op[t] = op]

\* a call is made: up to the lock_guard
ConfigCall(t) ==
    /\ configCalls.pc[t] = "out"
    /\ \/ \E config \in ConfigObjects :
            ConfigStep(t, "lock", [IdleConfigCall EXCEPT
                                     !.name = "configWithValidation",
                                     !.arg = config])
       \/ \E s \in SetterInputs :
            LET op == [IdleConfigCall EXCEPT !.name = s.name, !.arg = s.arg]
            IN  IF applySetter(apConfig, s)[1] # "SUCCESS"
                THEN ConfigStep(t, "out",
                                [op EXCEPT !.err = applySetter(apConfig, s)[1]])
                ELSE ConfigStep(t, "lock", op)
    /\ UNCHANGED <<apConfig, now, conn, call, storeVars, threads, secure, timer>>

\* a lock_guard that does not wait for _configMutex
ConfigLockNoWait(t) ==
    /\ configCalls.pc[t] = "lock"
    /\ configCalls' = [configCalls EXCEPT !.mutex = t, !.pc[t] = "inside",
                                          !.op[t].seen = apConfig]
    /\ UNCHANGED <<apConfig, now, conn, call, storeVars, threads, secure, timer>>

\* std::lock_guard<std::mutex> lock(_configMutex)
ConfigLock(t) ==
    /\ configCalls.pc[t] = "lock"
    /\ configCalls.mutex = 0
    /\ configCalls' = [configCalls EXCEPT !.mutex = t, !.pc[t] = "inside",
                                          !.op[t].seen = apConfig]
    /\ UNCHANGED <<apConfig, now, conn, call, storeVars, threads, secure, timer>>

\* configWithValidation from the memory check to the return of config():
\* on failure config() may have left in _apConfig the old configuration,
\* the new one, or a part of the new one
ConfigApply(t) ==
    LET op == configCalls.op[t] IN
    /\ configCalls.pc[t] = "inside"
    /\ op.name = "configWithValidation"
    /\ \E available \in HeapInputs, success \in BOOLEAN,
          left \in { apConfig, op.arg,
                     [apConfig EXCEPT !.hostName = op.arg.hostName] } :
         IF ~_checkMemoryAvailable(available, ConfigMemory)
         THEN /\ ConfigStep(t, "unlock", [op EXCEPT !.err = "MEMORY_INSUFFICIENT"])
              /\ UNCHANGED apConfig
         ELSE /\ ConfigStep(t, "applied", [op EXCEPT !.oldConfig = apConfig,
                                                     !.success = success])
              /\ apConfig' = IF success THEN op.arg ELSE left
    /\ UNCHANGED <<now, conn, call, storeVars, threads, secure, timer>>

\* configWithValidation after config(): the rollback, and the result
ConfigReturn(t) ==
    LET op == configCalls.op[t] IN
    /\ configCalls.pc[t] = "applied"
    /\ IF ~op.success
       THEN /\ apConfig' = op.oldConfig
            /\ ConfigStep(t, "unlock", [op EXCEPT !.err = "INVALID_PARAMETER"])
       ELSE /\ UNCHANGED apConfig
            /\ ConfigStep(t, "unlock", [op EXCEPT !.err = "SUCCESS"])
    /\ UNCHANGED <<now, conn, call, storeVars, threads, secure, timer>>

\* the body of a setter: the assignments to _apConfig
SetterWrite(t) ==
    LET op == configCalls.op[t] IN
    /\ configCalls.pc[t] = "inside"
    /\ op.name # "configWithValidation"
    /\ apConfig' = applySetter(apConfig, op)[2]
    /\ ConfigStep(t, "unlock", [op EXCEPT !.err = "SUCCESS"])
    /\ UNCHANGED <<now, conn, call, storeVars, threads, secure, timer>>

\* the return: the lock_guard goes out of scope
ConfigUnlock(t) ==
    /\ configCalls.pc[t] = "unlock"
    /\ configCalls' = [configCalls EXCEPT !.mutex = 0, !.pc[t] = "out"]
    /\ UNCHANGED <<apConfig, now, conn, call, storeVars, threads, secure, timer>>

ConfigNext ==
    \E t \in Threads :
        \/ ConfigCall(t)
        \/ ConfigLock(t)
        \/ ConfigApply(t)
        \/ ConfigReturn(t)
        \/ SetterWrite(t)
        \/ ConfigUnlock(t)

SpecConfig == PortalInit /\ [][ConfigNext]_vars

(***************************************************************************)
(* TimeoutHelper on the 32-bit unsigned long of millis(), to the            *)
(* millisecond.  A 32-bit value is the pair <<high, low>> of its 16-bit     *)
(* halves, and the arithmetic of unsigned long is done on the halves.       *)
(***************************************************************************)
\* the polls of the timer that are followed
MaxPolls == 3

\* the values of one half of an unsigned long
HalfRange == 65536

\* the unsigned long of a natural number below 2^31
ToWord(n) == <<n \div HalfRange, n % HalfRange>>

\* the largest number of milliseconds followed: 2^31 - 1
LargestPassed == 32767 * HalfRange + (HalfRange - 1)

\* unsigned addition
WordAdd(a, b) ==
    LET low == a[2] + b[2]
    IN  <<(a[1] + b[1] + (low \div HalfRange)) % HalfRange, low % HalfRange>>

\* unsigned subtraction
WordSub(a, b) ==
    LET low == a[2] - b[2]
    IN  <<(a[1] - b[1] - (IF low < 0 THEN 1 ELSE 0)) % HalfRange, low % HalfRange>>

\* unsigned >=
WordGeq(a, b) == a[1] > b[1] \/ (a[1] = b[1] /\ a[2] >= b[2])

\* millis() when a timer is constructed: after boot, one second and one
\* millisecond before the counter wraps, and half way
MillisInputs ==
    { ToWord(0), ToWord(1500), <<32768, 0>>,
      <<HalfRange - 1, HalfRange - 1000>>, <<HalfRange - 1, HalfRange - 1>> }

\* the timeouts timers are constructed with, in milliseconds
TimeoutInputs == { 0, 1, 1000, 5000, 300000, LargestPassed }

\* the milliseconds that pass between two reads of the timer
PassInputs == { 0, 1, 998, 999, 4000, 295000, 2147000000 }

\* TimeoutHelper(timeoutMs), constructed when millis() is millis
TimeoutHelper(millis, timeoutMs) ==
    [ _startTime |-> millis, _timeout |-> ToWord(timeoutMs) ]

\* TimeoutHelper::elapsed, when millis() is millis
TimeoutHelper_elapsed(th, millis) == WordSub(millis, th._startTime)

\* an isExpired that compares millis() with the deadline _startTime + _timeout
TimeoutHelper_isExpiredDeadline(th, millis) ==
    WordGeq(millis, WordAdd(th._startTime, th._timeout))

\* TimeoutHelper::isExpired, when millis() is millis
TimeoutHelper_isExpired(th, millis) ==
    WordGeq(WordSub(millis, th._startTime), th._timeout)

\* TimeoutHelper::remaining, when millis() is millis
TimeoutHelper_remaining(th, millis) ==
    IF WordGeq(TimeoutHelper_elapsed(th, millis), th._timeout)
    THEN ToWord(0)
    ELSE WordSub(th._timeout, TimeoutHelper_elapsed(th, millis))

\* what the three readers return when millis() is millis
readTimer(tm, th, millis) ==
    [ tm EXCEPT !.helper = th, !.millis = millis,
                !.isExpired = TimeoutHelper_isExpired(th, millis),
                !.elapsed = TimeoutHelper_elapsed(th, millis),
                !.remaining = TimeoutHelper_remaining(th, millis) ]

\* a timer is constructed and read at once
TimerStart ==
    /\ timer.state = "none"
    /\ \E millis \in MillisInputs, timeoutMs \in TimeoutInputs :
         timer' = readTimer([timer EXCEPT !.state = "running",
                                          !.timeoutMs = timeoutMs],
                            TimeoutHelper(millis, timeoutMs), millis)
    /\ UNCHANGED <<apConfig, now, conn, call, storeVars, threads, secure,
                   configCalls>>

\* time passes and the timer is read
TimerPoll ==
    /\ timer.state = "running"
    /\ timer.polls < MaxPolls
    /\ \E ms \in PassInputs :
         /\ ms <= LargestPassed - timer.passed
         /\ timer' = readTimer([timer EXCEPT !.polls = @ + 1,
                                             !.passed = @ + ms],
                               timer.helper, WordAdd(timer.millis, ToWord(ms)))
    /\ UNCHANGED <<apConfig, now, conn, call, storeVars, threads, secure,
                   configCalls>>

\* TimeoutHelper::restart, and a read
TimerRestart ==
    /\ timer.state = "running"
    /\ timer.passed > 0
    /\ timer' = readTimer([timer EXCEPT !.passed = 0],
                          [timer.helper EXCEPT !._startTime = timer.millis],
                          timer.millis)
    /\ UNCHANGED <<apConfig, now, conn, call, storeVars, threads, secure,
                   configCalls>>

TimerNext ==
    \/ TimerStart
    \/ TimerPoll
    \/ TimerRestart

SpecTimer == PortalInit /\ [][TimerNext]_vars

(***************************************************************************)
(* One SecureString object at the level of its buffer: _data is a sequence *)
(* of _capacity characters, NUL among them.                                *)
(***************************************************************************)
\* the capacities the objects are constructed with: ssid(33), password(64)
SecureCapacities == { SsidCapacity, PasswordCapacity }

\* the texts given to set: the empty text, short ones, one that holds a NUL,
\* and those one short of each capacity and as long as it
SecureTexts ==
    { <<>>, <<"a">>, <<"b", "a">>, Str(3, "b"), <<"a", NUL, "b">>,
      Str(SsidCapacity - 1, "a"), Str(SsidCapacity, "b"),
      Str(PasswordCapacity - 1, "a"), Str(PasswordCapacity, "b") }

\* memset(_data, 0, _capacity)
memset(capacity) == [i \in 1..capacity |-> NUL]

\* strncpy(dest, src, n): the characters of src up to its terminator, then
\* NUL up to n characters
strncpy(dest, src, n) ==
    [i \in 1..Len(dest) |->
        IF i > n THEN dest[i]
        ELSE IF i <= strlen(src) THEN src[i] ELSE NUL]

\* what lies behind the last element of _data when a read runs past it: the
\* bytes are not the object's, so they are any bytes, a NUL at once among
\* the cases
GarbageTexts == { <<>>, <<"b">>, <<"b", "a">> }

\* SecureString::c_str read as a text: the characters of _data up to its
\* first NUL; a buffer that holds no NUL (new char[0] has no element) is
\* read past its end, and the text is then one of several
c_str(sec) ==
    IF \E i \in 1..Len(sec.data) : sec.data[i] = NUL
    THEN { SubSeq(sec.data, 1, strlen(sec.data)) }
    ELSE { sec.data \o garbage : garbage \in GarbageTexts }

\* explicit SecureString(size_t capacity)
SecureString(capacity) ==
    [ NoSecure EXCEPT !.state = "alive", !.data = memset(capacity),
                      !.capacity = capacity, !.length = 0,
                      !.op = "SecureString" ]

\* a set that copies over the old content without the memset
SecureString_setNoWipe(sec, str) ==
    IF Len(str) >= sec.capacity
    THEN [sec EXCEPT !.before = sec.data, !.op = "set", !.arg = str, !.result = FALSE]
    ELSE [sec EXCEPT !.before = sec.data, !.op = "set", !.arg = str, !.result = TRUE,
                     !.data = strncpy(sec.data, str, Len(str)),
                     !.length = Len(str)]

\* SecureString::set
SecureString_set(sec, str) ==
    IF Len(str) >= sec.capacity
    THEN [sec EXCEPT !.before = sec.data, !.op = "set", !.arg = str, !.result = FALSE]
    ELSE [sec EXCEPT !.before = sec.data, !.op = "set", !.arg = str, !.result = TRUE,
                     !.data = strncpy(memset(sec.capacity), str, Len(str)),
                     !.length = Len(str)]

\* SecureString::clear
SecureString_clear(sec) ==
    [sec EXCEPT !.before = sec.data, !.op = "clear", !.arg = <<>>, !.result = TRUE,
                !.data = memset(sec.capacity), !.length = 0]

\* SecureString::~SecureString: the buffer as it is handed to delete[]
SecureString_destroy(sec) ==
    [sec EXCEPT !.before = sec.data, !.op = "~SecureString", !.arg = <<>>, !.result = TRUE,
                !.state = "released", !.data = memset(sec.capacity)]

\* an object is constructed
SecureConstruct ==
    /\ secure.state # "alive"
    /\ \E capacity \in SecureCapacities : secure' = SecureString(capacity)
    /\ UNCHANGED <<apConfig, now, conn, call, storeVars, threads, configCalls, timer>>

\* set is called on the object
SecureSet ==
    /\ secure.state = "alive"
    /\ \E str \in SecureTexts : secure' = SecureString_set(secure, str)
    /\ UNCHANGED <<apConfig, now, conn, call, storeVars, threads, configCalls, timer>>

\* clear is called on the object
SecureClear ==
    /\ secure.state = "alive"
    /\ secure' = SecureString_clear(secure)
    /\ UNCHANGED <<apConfig, now, conn, call, storeVars, threads, configCalls, timer>>

\* the text of the object is read through c_str
SecureRead ==
    /\ secure.state = "alive"
    /\ \E text \in c_str(secure) :
          secure' = [secure EXCEPT !.before = secure.data, !.op = "c_str",
                                   !.arg = <<>>, !.result = TRUE,
                                   !.text = text]
    /\ UNCHANGED <<apConfig, now, conn, call, storeVars, threads, configCalls, timer>>

\* the object is destroyed
SecureDestroy ==
    /\ secure.state = "alive"
    /\ secure' = SecureString_destroy(secure)
    /\ UNCHANGED <<apConfig, now, conn, call, storeVars, threads, configCalls, timer>>

SecureNext ==
    \/ SecureConstruct
    \/ SecureSet
    \/ SecureClear
    \/ SecureRead
    \/ SecureDestroy

SpecSecure == PortalInit /\ [][SecureNext]_vars

(***************************************************************************)
(* The claims about the credential store.                                  *)
(***************************************************************************)
\* the entries of a collection, as a set
Entries(creds) == { creds[i] : i \in 1..Len(creds) }

\* the length rules for a credential, as the specification words them
PassesLengthRules(cred) ==
    /\ Len(cred.ssid) >= 1
    /\ Len(cred.ssid) <= 32
    /\ (Len(cred.password) = 0 \/ (Len(cred.password) >= 8 /\ Len(cred.password) <= 63))

\* the store operations other than initialize
OtherOperations ==
    { "addCredential", "getCredential", "removeCredential",
      "getAvailableSSIDs", "clearAll", "exportToJSON" }

\* C1: for a store built with maxCredentials >= 1 the number of stored
\* credentials never exceeds maxCredentials, whatever calls are made
C1_SizeWithinCapacity ==
    maxCredentials >= 1 => Len(credentials) <= maxCredentials

\* C1 witness: an addCredential has succeeded and the store is full
C1_Witness ==
    /\ lastOp.op = "addCredential"
    /\ lastOp.err = "SUCCESS"
    /\ maxCredentials >= 1
    /\ Len(credentials) = maxCredentials

\* C2: no two stored credentials have the same ssid; an addCredential with
\* an ssid already present replaces that entry
C2_UniqueSsid ==
    /\ \A i, j \in 1..Len(credentials) :
          i # j => credentials[i].ssid # credentials[j].ssid
    /\ (lastOp.op = "addCredential" /\ lastOp.replaced) =>
          Cardinality({ i \in 1..Len(credentials) : credentials[i] = lastOp.cred }) = 1

\* C2 witness: an addCredential found its ssid in a store with free space
\* and overwrote the entry
C2_Witness ==
    /\ lastOp.op = "addCredential"
    /\ lastOp.replaced
    /\ Len(credentials) = 1
    /\ Len(credentials) < maxCredentials

\* C3: an addCredential of a valid credential with an absent ssid into a
\* full store removes exactly one entry, one of smallest timestamp among
\* those held before the call, and the new credential is stored, so the
\* store still holds maxCredentials entries
C3_EvictsOldest ==
    [][ ( /\ lastOp'.op = "addCredential"
          /\ PassesLengthRules(lastOp'.cred)
          /\ \A e \in Entries(credentials) : e.ssid # lastOp'.cred.ssid
          /\ Len(credentials) = maxCredentials
          /\ maxCredentials >= 1 )
        => /\ Len(credentials') = maxCredentials
           /\ \E v \in Entries(credentials) :
                /\ \A e \in Entries(credentials) : v.timestamp <= e.timestamp
                /\ Entries(credentials') =
                     (Entries(credentials) \ {v}) \cup {lastOp'.cred} ]_vars

\* C3 witness: an addCredential has erased the oldest entry of a full store
C3_Witness ==
    /\ lastOp.op = "addCredential"
    /\ lastOp.evicted
    /\ lastOp.err = "SUCCESS"
    /\ Len(credentials) = maxCredentials
    /\ \E e \in Entries(credentials) : e = lastOp.cred

\* C4: an addCredential of a valid credential whose ssid is stored keeps
\* the number of entries and every other entry, also in a full store
C4_UpdateKeepsSize ==
    [][ ( /\ lastOp'.op = "addCredential"
          /\ PassesLengthRules(lastOp'.cred)
          /\ \E e \in Entries(credentials) : e.ssid = lastOp'.cred.ssid )
        => /\ Len(credentials') = Len(credentials)
           /\ \A i \in 1..Len(credentials) :
                IF credentials[i].ssid = lastOp'.cred.ssid
                THEN credentials'[i] = lastOp'.cred
                ELSE credentials'[i] = credentials[i] ]_vars

\* C4 witness: an addCredential has overwritten an entry of a full store
\* that holds another entry too
C4_Witness ==
    /\ lastOp.op = "addCredential"
    /\ lastOp.replaced
    /\ ~lastOp.evicted
    /\ Len(credentials) = maxCredentials
    /\ \E e \in Entries(credentials) : e.ssid # lastOp.cred.ssid

\* C5: the connectionCount of an ssid never decreases in a step that keeps
\* the ssid in the store, an addCredential that replaces the entry included
C5_CountNeverDecreases ==
    [][ \A i \in 1..Len(credentials) : \A j \in 1..Len(credentials') :
          credentials[i].ssid = credentials'[j].ssid =>
             credentials'[j].connectionCount >= credentials[i].connectionCount ]_vars

\* C6: every operation other than initialize called before initialize has
\* succeeded fails with INVALID_STATE and leaves the store unchanged
C6_InvalidStateBeforeInitialize ==
    [][ (~initialized /\ lastOp'.op \in OtherOperations)
        => /\ lastOp'.err = "INVALID_STATE"
           /\ credentials' = credentials
           /\ initialized' = initialized ]_vars

\* C7: an addCredential of a credential that breaks a length rule returns
\* INVALID_PARAMETER and changes neither the collection nor the initialized
\* flag, and every stored credential satisfies the length rules
C7_InvalidCredentialRejected ==
    [][ /\ (lastOp'.op = "addCredential" /\ ~PassesLengthRules(lastOp'.cred))
           => /\ lastOp'.err = "INVALID_PARAMETER"
              /\ ~lastOp'.saved
              /\ credentials' = credentials
              /\ initialized' = initialized
        /\ \A e \in Entries(credentials') : PassesLengthRules(e) ]_vars

\* C7 witness: an initialized, non-empty store has refused a credential
\* whose password is too short
C7_Witness ==
    /\ lastOp.op = "addCredential"
    /\ lastOp.err = "INVALID_PARAMETER"
    /\ Len(lastOp.cred.ssid) >= 1
    /\ Len(lastOp.cred.password) \in 1..7
    /\ initialized
    /\ Len(credentials) >= 1

\* C8, as claimed: a removeCredential of a non-empty ssid that is not stored
\* fails with CREDENTIAL_LOAD_ERROR, does not persist and changes nothing; of
\* a stored ssid it removes that entry only
C8_RemoveAsClaimed ==
    [][ (lastOp'.op = "removeCredential" /\ Len(lastOp'.ssid) >= 1)
        => IF \A e \in Entries(credentials) : e.ssid # lastOp'.ssid
           THEN /\ lastOp'.err = "CREDENTIAL_LOAD_ERROR"
                /\ ~lastOp'.saved
                /\ credentials' = credentials
           ELSE \E k \in 1..Len(credentials) :
                /\ credentials[k].ssid = lastOp'.ssid
                /\ credentials' = SubSeq(credentials, 1, k - 1)
                                  \o SubSeq(credentials, k + 1, Len(credentials)) ]_vars

\* C8, amended: the same of a removeCredential on an initialized store
C8_RemoveWhenInitialized ==
    [][ (lastOp'.op = "removeCredential" /\ Len(lastOp'.ssid) >= 1 /\ initialized)
        => /\ initialized' = initialized
           /\ IF \A e \in Entries(credentials) : e.ssid # lastOp'.ssid
              THEN /\ lastOp'.err = "CREDENTIAL_LOAD_ERROR"
                   /\ ~lastOp'.saved
                   /\ credentials' = credentials
              ELSE \E k \in 1..Len(credentials) :
                   /\ credentials[k].ssid = lastOp'.ssid
                   /\ credentials' = SubSeq(credentials, 1, k - 1)
                                     \o SubSeq(credentials, k + 1, Len(credentials)) ]_vars

\* C8 witness: an initialized store that holds entries has been asked to
\* remove an ssid it does not hold
C8_Witness ==
    /\ lastOp.op = "removeCredential"
    /\ lastOp.err = "CREDENTIAL_LOAD_ERROR"
    /\ Len(lastOp.ssid) >= 1
    /\ initialized
    /\ Len(credentials) = maxCredentials

\* C10: initialize always returns SUCCESS and sets the initialized flag; on
\* an initialized store it does not load again and keeps the collection
C10_InitializeIdempotent ==
    [][ lastOp'.op = "initialize"
        => /\ lastOp'.err = "SUCCESS"
           /\ initialized'
           /\ credentials' = credentials
           /\ (initialized => ~lastOp'.loaded)
           /\ (~initialized => lastOp'.loaded) ]_vars

\* C10 witness: initialize has been called again on a store that holds
\* credentials
C10_Witness ==
    /\ lastOp.op = "initialize"
    /\ ~lastOp.loaded
    /\ lastOp.err = "SUCCESS"
    /\ initialized
    /\ Len(credentials) >= 1


\* C11: clearAll always returns SUCCESS and leaves no credential, on an
\* empty store as on any other, and changes nothing else of the store
C11_ClearAllSucceeds ==
    [][ lastOp'.op = "clearAll"
        => /\ lastOp'.err = "SUCCESS"
           /\ lastOp'.saved
           /\ credentials' = <<>>
           /\ initialized' = initialized
           /\ maxCredentials' = maxCredentials ]_vars

\* C11 witness: clearAll has been called on an initialized store that was
\* already empty
C11_Witness ==
    /\ lastOp.op = "clearAll"
    /\ lastOp.sizeBefore = 0
    /\ lastOp.err = "SUCCESS"
    /\ initialized
    /\ credentials = <<>>

\* the timestamp stored for an ssid
TimestampOf(creds, ssid) ==
    (CHOOSE e \in Entries(creds) : e.ssid = ssid).timestamp

\* C12: getAvailableSSIDs returns every stored ssid exactly once, by
\* non-increasing timestamp, and leaves the store as it was; for entries
\* timestamped 10, 30, 20 it returns the ssids of 30, 20, 10
C12_ListByRecency ==
    [][ lastOp'.op = "getAvailableSSIDs"
        => LET out == lastOp'.outSsids IN
           /\ Len(out) = Len(credentials)
           /\ \A e \in Entries(credentials) :
                Cardinality({ i \in 1..Len(out) : out[i] = e.ssid }) = 1
           /\ \A i, j \in 1..Len(out) :
                i < j => TimestampOf(credentials, out[i]) >= TimestampOf(credentials, out[j])
           /\ ( /\ Len(credentials) = 3
                /\ credentials[1].timestamp = 10
                /\ credentials[2].timestamp = 30
                /\ credentials[3].timestamp = 20 )
              => out = << credentials[2].ssid, credentials[3].ssid, credentials[1].ssid >>
           /\ credentials' = credentials
           /\ initialized' = initialized ]_vars

\* C12 witness: the ssids of entries timestamped 10, 30, 20 have been listed
C12_Witness ==
    /\ lastOp.op = "getAvailableSSIDs"
    /\ Len(lastOp.outSsids) = 3
    /\ Len(credentials) = 3
    /\ credentials[1].timestamp = 10
    /\ credentials[2].timestamp = 30
    /\ credentials[3].timestamp = 20

\* the passwords a stored credential can hold
StoredPasswords ==
    { SecureStringSet(<<>>, PasswordCapacity, p) :
        p \in { x \in PasswordInputs : isValidPassword(x) } }

\* C13: the output of exportToJSON is the same for every store that differs
\* from this one only in the passwords of its entries, and each exported
\* entry carries the keys ssid, useStatic, timestamp, connectionCount in
\* that order and no other
C13_ExportHidesPasswords ==
    [][ lastOp'.op = "exportToJSON"
        => LET out == lastOp'.outJson IN
           /\ Len(out) = Len(credentials)
           /\ \A f \in [1..Len(credentials) -> StoredPasswords] :
                out = [i \in 1..Len(credentials) |->
                         ExportEntry([credentials[i] EXCEPT !.password = f[i]])]
           /\ \A i \in 1..Len(out) :
                [k \in 1..Len(out[i]) |-> out[i][k][1]]
                   = <<"ssid", "useStatic", "timestamp", "connectionCount">> ]_vars

\* C13 witness: a store holding an open and a secured network has been
\* exported
C13_Witness ==
    /\ lastOp.op = "exportToJSON"
    /\ Len(lastOp.outJson) = 2
    /\ Len(credentials) = 2
    /\ Len(credentials[1].password) = 0
    /\ Len(credentials[2].password) >= 8

(***************************************************************************)
(* The claims about connectToWiFi.                                         *)
(***************************************************************************)
\* a network configuration that breaks a rule of validation, as the
\* specification words them
FailsValidation(cfg) ==
    \/ Len(cfg.ssid) < 1 \/ Len(cfg.ssid) > 32
    \/ (Len(cfg.password) > 0 /\ Len(cfg.password) < 8)
    \/ Len(cfg.password) > 63
    \/ (Len(cfg.hostname) > 0 /\ ~isValidHostname(cfg.hostname))
    \/ cfg.connectionTimeoutMs < 5000
    \/ cfg.connectionTimeoutMs > 300000

\* the step that enters connectToWiFi
CallStep == conn.pc = "idle" /\ conn'.pc # "idle"

\* the step that returns from the retry loop without a connection
FailureStep == conn.pc = "loop" /\ conn'.pc = "done" /\ conn'.err # "SUCCESS"

\* the step that makes a connection attempt
AttemptStep == conn'.attempts > conn.attempts

\* at clock t less time than the budget of the call has passed since the
\* timer of the call was started
BudgetLeft(c, t) ==
    (t - c.startTime) % TicksPerWrap < c.budget \div 4

\* C14: a connectToWiFi call with a configuration that fails validation
\* returns INVALID_PARAMETER with no attempt made, the retry counter at
\* zero, and the hostname and static addresses of _apConfig as they were
C14_InvalidConfigRejected ==
    [][ CallStep /\ FailsValidation(conn'.networkConfig)
        => /\ conn'.pc = "done"
           /\ conn'.err = "INVALID_PARAMETER"
           /\ conn'.attempts = 0
           /\ conn'.retries = 0
           /\ apConfig' = apConfig ]_vars

\* C14 witness: a configuration with an empty ssid, a hostname and static
\* addresses has been rejected and none of its settings is in _apConfig
C14_Witness ==
    /\ conn.pc = "done"
    /\ conn.err = "INVALID_PARAMETER"
    /\ FailsValidation(conn.networkConfig)
    /\ conn.networkConfig.hostname = <<"h">>
    /\ conn.networkConfig.useStaticIP
    /\ apConfig.hostName # <<"h">>
    /\ apConfig.staip # conn.networkConfig.staticIP

\* C15: when an attempt of connectToWiFi succeeds, the call returns success,
\* the stored credential of the connected ssid has its connectionCount
\* raised by one and its timestamp set to the current time, and the store
\* is saved
C15_SuccessUpdatesStats ==
    [][ conn.pc = "loop" /\ conn'.pc = "done" /\ conn'.err = "SUCCESS"
        => \E i \in 1..Len(credentials) :
             /\ credentials[i].ssid = conn.networkConfig.ssid
             /\ Len(credentials') = Len(credentials)
             /\ credentials'[i].connectionCount
                  = credentials[i].connectionCount + 1
             /\ credentials'[i].timestamp \div 4 = now'
             /\ lastOp'.saved ]_vars

\* C16: when connectToWiFi returns without a connection and its budget has
\* not elapsed, it has made exactly maxRetries attempts and returns
\* WIFI_CONNECT_FAILED with that count in the message
C16_AllAttemptsFail ==
    [][ FailureStep /\ BudgetLeft(conn, now)
        => /\ conn'.attempts = conn.networkConfig.maxRetries
           /\ conn'.err = "WIFI_CONNECT_FAILED"
           /\ conn'.reported = conn.networkConfig.maxRetries ]_vars

\* C16 witness: three attempts of a call with maxRetries 3 failed within
\* the budget and the call returned
C16_Witness ==
    /\ conn.pc = "done"
    /\ conn.err = "WIFI_CONNECT_FAILED"
    /\ conn.networkConfig.maxRetries = 3
    /\ conn.attempts = 3
    /\ conn.reported = 3
    /\ BudgetLeft(conn, now)

\* C17: when connectToWiFi stops because its budget elapsed while retries
\* were left, it returns WIFI_TIMEOUT after the attempts already made
C17_BudgetStopIsTimeout ==
    [][ /\ FailureStep
        /\ ~BudgetLeft(conn, now)
        /\ conn.retries < conn.networkConfig.maxRetries
        => /\ conn'.err = "WIFI_TIMEOUT"
           /\ conn'.reported = conn.attempts ]_vars

\* an attempt is started only while fewer than maxRetries attempts have been
\* made and the budget has not elapsed, and once either bound is reached the
\* call returns without a further attempt
NoAttemptPastBounds ==
    [][ /\ AttemptStep
           => /\ conn.attempts < conn.networkConfig.maxRetries
              /\ BudgetLeft(conn, now)
        /\ ( /\ conn.pc = "loop"
             /\ conn'.pc # "loop" \/ conn'.attempts # conn.attempts
             /\ \/ conn.attempts >= conn.networkConfig.maxRetries
                \/ ~BudgetLeft(conn, now) )
           => conn'.pc = "done" /\ conn'.attempts = conn.attempts ]_vars

\* the budget of every call is the timeout it gives to each of its attempts
BudgetIsAttemptTimeout ==
    conn.pc \in {"loop", "delay"}
    => conn.budget = conn.networkConfig.connectionTimeoutMs

\* a call is made that reaches its loop with a budget other than the timeout
\* it gives to each attempt
CallWithOwnBudget ==
    /\ ConnectToWiFi
    /\ conn'.pc = "loop"
    /\ conn'.budget # conn'.networkConfig.connectionTimeoutMs

\* C18: no attempt is started once maxRetries attempts have been made or
\* once the overall budget has elapsed, the loop stopping at whichever bound
\* is reached first; and the budget is independent of the per-attempt
\* timeout: where a call can be made, one can be made whose budget is not
\* the timeout of its attempts
C18_AttemptWithinBounds ==
    /\ NoAttemptPastBounds
    /\ [](conn.pc = "idle" => ENABLED CallWithOwnBudget)

\* C19: an attempt follows a failed attempt only when that one failed with
\* WIFI_TIMEOUT or WIFI_CONNECT_FAILED
C19_OnlyConnectivityRetried ==
    [][ AttemptStep /\ conn.attempts > 0
        => conn.lastAttempt \in {"WIFI_TIMEOUT", "WIFI_CONNECT_FAILED"} ]_vars

\* static addresses are requested and one of them is not set
StaticUnset(cfg) ==
    cfg.useStaticIP /\ (cfg.staticIP = 0 \/ cfg.gateway = 0 \/ cfg.subnet = 0)

\* C20: past validation and the memory check, connectToWiFi goes on to the
\* static addresses or to the retry loop whatever setHostname returned;
\* when static addresses are requested with one of them unset, its
\* setStaticIP step returns INVALID_PARAMETER with no attempt made, and
\* nothing else stops the call before the loop
C20_StaticFailureAborts ==
    [][ /\ ( /\ CallStep
             /\ ~FailsValidation(conn'.networkConfig)
             /\ conn'.err # "MEMORY_INSUFFICIENT" )
           => conn'.pc = IF conn'.networkConfig.useStaticIP
                         THEN "staticIP" ELSE "loop"
        /\ (conn.pc = "staticIP" /\ conn' # conn)
           => IF StaticUnset(conn.networkConfig)
              THEN /\ conn'.pc = "done"
                   /\ conn'.err = "INVALID_PARAMETER"
                   /\ conn'.attempts = 0
                   /\ apConfig' = apConfig
              ELSE conn'.pc \in {"dns", "loop"}
        /\ (conn.pc = "dns" /\ conn' # conn) => conn'.pc = "loop" ]_vars

\* C20 witness: a valid configuration asking for static addresses without
\* a gateway has been turned down before any attempt
C20_Witness ==
    /\ conn.pc = "done"
    /\ conn.err = "INVALID_PARAMETER"
    /\ ~FailsValidation(conn.networkConfig)
    /\ StaticUnset(conn.networkConfig)
    /\ conn.networkConfig.gateway = 0
    /\ conn.networkConfig.staticIP # 0
    /\ conn.attempts = 0

\* C21: a connectToWiFi attempt that cannot proceed for lack of memory ends
\* the call with MEMORY_INSUFFICIENT and with no write to _apConfig made
\* by the call
C21_MemoryFailureLeavesConfig ==
    [][ AttemptStep /\ conn'.lastAttempt = "MEMORY_INSUFFICIENT"
        => /\ conn'.pc = "done"
           /\ conn'.err = "MEMORY_INSUFFICIENT"
           /\ conn'.wrote = {} ]_vars

\* C22: a connectToWiFi call that has been made returns; each failed
\* attempt raises the retry counter by one, and the loop is left without a
\* connection only with the retries used up or the budget elapsed
C22_CallReturns ==
    /\ (conn.pc \in {"staticIP", "dns", "loop", "delay"}) ~> (conn.pc = "done")
    /\ [][ /\ (AttemptStep /\ conn'.lastAttempt # "SUCCESS")
              => conn'.retries = conn.retries + 1
           /\ FailureStep
              => \/ conn.retries >= conn.networkConfig.maxRetries
                 \/ ~BudgetLeft(conn, now) ]_vars

\* C22 witness: a call returned after two or more failed attempts
C22_Witness ==
    /\ conn.pc = "done"
    /\ conn.err = "WIFI_CONNECT_FAILED"
    /\ conn.retries >= 2
    /\ conn.attempts = conn.retries

\* C35: when begin() fails, beginWithResult returns WIFI_TIMEOUT if
\* portalStatus() has AC_TIMEOUT, otherwise SUCCESS if it has
\* AC_CAPTIVEPORTAL, otherwise WIFI_CONNECT_FAILED; an attempt that ends in
\* the captive portal ends the connectToWiFi call with SUCCESS and without
\* another retry
C35_PortalFallbackIsSuccess ==
    [][ (AttemptStep /\ conn'.began /\ ~conn'.outcome.success)
        => /\ conn'.lastAttempt =
                 IF conn'.outcome.AC_TIMEOUT THEN "WIFI_TIMEOUT"
                 ELSE IF conn'.outcome.AC_CAPTIVEPORTAL THEN "SUCCESS"
                 ELSE "WIFI_CONNECT_FAILED"
           /\ (conn'.outcome.AC_CAPTIVEPORTAL /\ ~conn'.outcome.AC_TIMEOUT)
              => /\ conn'.pc = "done"
                 /\ conn'.err = "SUCCESS"
                 /\ conn'.retries = conn.retries
           /\ (conn'.outcome.AC_TIMEOUT \/ ~conn'.outcome.AC_CAPTIVEPORTAL)
              => /\ conn'.pc \in {"loop", "delay"}
                 /\ conn'.retries = conn.retries + 1 ]_vars

\* C35 witness: after a failed attempt, a second attempt has ended in the
\* captive portal and the call has returned SUCCESS
C35_Witness ==
    /\ conn.pc = "done"
    /\ conn.err = "SUCCESS"
    /\ conn.began
    /\ ~conn.outcome.success
    /\ conn.outcome.AC_CAPTIVEPORTAL
    /\ conn.attempts = 2
    /\ conn.retries = 1

(***************************************************************************)
(* The claims about startCaptivePortal.                                    *)
(***************************************************************************)
\* a portal configuration that breaks a rule of validation, as the
\* specification words them
FailsPortalValidation(cfg) ==
    \/ Len(cfg.apSSID) < 1 \/ Len(cfg.apSSID) > 32
    \/ (Len(cfg.apPassword) > 0 /\ Len(cfg.apPassword) < 8)
    \/ Len(cfg.apPassword) > 63
    \/ cfg.channel \notin 1..13
    \/ cfg.port \notin 80..65535

\* the step of a startCaptivePortal call
PortalStep == call'.op = "startCaptivePortal"

\* C25: startCaptivePortal with a configuration that fails validation
\* returns INVALID_PARAMETER with _apConfig unchanged and begin() not
\* called; with a valid configuration and begin() called it returns SUCCESS
\* when begin() succeeds and PORTAL_START_FAILED when it fails
C25_PortalStartResult ==
    [][ PortalStep
        => IF FailsPortalValidation(call'.arg)
           THEN /\ call'.err = "INVALID_PARAMETER"
                /\ ~call'.began
                /\ apConfig' = apConfig
           ELSE IF call'.began
           THEN call'.err = IF call'.success THEN "SUCCESS"
                            ELSE "PORTAL_START_FAILED"
           ELSE call'.err = "MEMORY_INSUFFICIENT" /\ apConfig' = apConfig ]_vars

\* C25 witness: a configuration with channel 14 and authentication settings
\* has been rejected and its settings are not in _apConfig
C25_Witness ==
    /\ call.op = "startCaptivePortal"
    /\ call.err = "INVALID_PARAMETER"
    /\ call.arg.channel = 14
    /\ call.arg.enableAuth
    /\ ~call.began
    /\ apConfig.username # call.arg.authUsername
    /\ apConfig.channel # 14

\* C26: startCaptivePortal with enableAuth set leaves the realm, username
\* and password of the configuration in the active configuration, and
\* without enableAuth it leaves the authentication mode, username and
\* password of the active configuration as they were
C26_AuthCopiedWhenEnabled ==
    [][ PortalStep /\ call'.began
        => IF call'.arg.enableAuth
           THEN /\ apConfig'.realm = call'.arg.authRealm
                /\ apConfig'.username = call'.arg.authUsername
                /\ apConfig'.password = call'.arg.authPassword
           ELSE /\ apConfig'.auth = apConfig.auth
                /\ apConfig'.username = apConfig.username
                /\ apConfig'.password = apConfig.password
                /\ apConfig'.realm = apConfig.realm ]_vars

(***************************************************************************)
(* The claims about the validation functions.                              *)
(***************************************************************************)
\* C27: NetworkConfig::validate returns INVALID_PARAMETER exactly for the
\* configurations with an invalid ssid, password, non-empty hostname or
\* connection timeout, or with useStaticIP set and the static address,
\* gateway or subnet not set
C27_StaticFieldsValidated ==
    [][ call'.op = "NetworkConfig::validate"
        => /\ call'.err \in {"SUCCESS", "INVALID_PARAMETER"}
           /\ call'.err = "INVALID_PARAMETER"
                <=> (FailsValidation(call'.arg) \/ StaticUnset(call'.arg)) ]_vars

\* C28: AutoConnectAdvancedConfig::validate returns INVALID_PARAMETER for
\* every configuration with debug.enableFile set and the filesystem feature
\* not enabled, whatever the other feature flags
C28_FileLoggingNeedsFilesystem ==
    [][ /\ call'.op = "AutoConnectAdvancedConfig::validate"
        /\ call'.arg.debug.enableFile
        /\ (call'.arg.enabledFeatures \div 4) % 2 = 0
        => call'.err = "INVALID_PARAMETER" ]_vars

\* C29: InputSanitizer::isValidSSID and EnhancedCredential::validate both
\* accept an ssid exactly when its length is in 1..32
C29_SsidLengthRule ==
    [][ call'.op = "ssid"
        => /\ call'.success <=> Len(call'.arg) \in 1..32
           /\ call'.err = "SUCCESS" <=> Len(call'.arg) \in 1..32
           /\ call'.err \in {"SUCCESS", "INVALID_PARAMETER"} ]_vars

\* C29 witness: an ssid of 33 characters has been turned down by both
C29_Witness ==
    /\ call.op = "ssid"
    /\ Len(call.arg) = 33
    /\ ~call.success
    /\ call.err = "INVALID_PARAMETER"

\* C30: InputSanitizer::isValidPassword and EnhancedCredential::validate
\* both accept a password exactly when its length is 0 or in 8..63
C30_PasswordLengthRule ==
    [][ call'.op = "password"
        => /\ call'.success
                <=> (Len(call'.arg) = 0 \/ Len(call'.arg) \in 8..63)
           /\ call'.err = "SUCCESS"
                <=> (Len(call'.arg) = 0 \/ Len(call'.arg) \in 8..63) ]_vars

\* C31: InputSanitizer::isValidHostname accepts a hostname exactly when its
\* length is in 1..63, every character is a letter, a digit or a hyphen, and
\* neither the first nor the last character is a hyphen
C31_HostnameRule ==
    [][ call'.op = "hostname"
        => (call'.success
            <=> /\ Len(call'.arg) \in 1..63
                /\ \A i \in 1..Len(call'.arg) : call'.arg[i] \in Alnum \cup {"-"}
                /\ call'.arg[1] # "-"
                /\ call'.arg[Len(call'.arg)] # "-") ]_vars

\* C31 witness: a hostname of letters that ends in a hyphen has been turned
\* down
C31_Witness ==
    /\ call.op = "hostname"
    /\ Len(call.arg) = 3
    /\ call.arg[1] \in Alnum /\ call.arg[2] \in Alnum /\ call.arg[3] = "-"
    /\ ~call.success

\* the smallest timestamp of a collection
SmallestTimestamp(creds) ==
    CHOOSE t \in { e.timestamp : e \in Entries(creds) } :
        \A e \in Entries(creds) : t <= e.timestamp

\* C33: an addCredential that evicts erases the earliest of the entries that
\* have the smallest timestamp, keeps the others in their order and puts the
\* new credential last
C33_EvictionTieBreak ==
    [][ (lastOp'.op = "addCredential" /\ lastOp'.evicted)
        => \E k \in 1..Len(credentials) :
             /\ credentials[k].timestamp = SmallestTimestamp(credentials)
             /\ \A j \in 1..(k - 1) :
                   credentials[j].timestamp # SmallestTimestamp(credentials)
             /\ credentials' = SubSeq(credentials, 1, k - 1)
                               \o SubSeq(credentials, k + 1, Len(credentials))
                               \o <<lastOp'.cred>> ]_vars

\* the smallest timestamp a caller supplies
SmallestInput ==
    CHOOSE t \in { m[1] : m \in UsageInputs } :
        \A m \in UsageInputs : t <= m[1]

\* C33 witness: an entry has been evicted from a store in which another
\* entry, which is still stored, had the smallest timestamp there is, so
\* that the evicted and the kept entry had the same timestamp
C33_Witness ==
    /\ lastOp.op = "addCredential"
    /\ lastOp.evicted
    /\ Len(credentials) >= 2
    /\ \E i \in 1..(Len(credentials) - 1) :
          credentials[i].timestamp = SmallestInput

(***************************************************************************)
(* The claims about SecureString.                                          *)
(***************************************************************************)
\* C32: after the constructor and after every set or clear the buffer has
\* _capacity characters, all of them from position _length on are NUL, and
\* so the content is NUL-terminated: a read through c_str gives the
\* characters before the first NUL of the buffer and nothing else; a set
\* with a text of _capacity characters or more returns false and leaves the
\* buffer and the length as they were, any other set returns true, takes
\* the length of the text and holds the text up to its terminator; after
\* clear the content is empty; the destructor hands a buffer of NUL
\* characters to delete[]
C32_NoSecretRetained ==
    [][ /\ secure'.state = "alive"
           => /\ Len(secure'.data) = secure'.capacity
              /\ secure'.length <= secure'.capacity
              /\ \A i \in (secure'.length + 1)..secure'.capacity :
                    secure'.data[i] = NUL
              /\ \E i \in 1..(secure'.length + 1) :
                    i <= Len(secure'.data) /\ secure'.data[i] = NUL
        /\ (secure'.op = "set" /\ Len(secure'.arg) >= secure.capacity)
           => /\ ~secure'.result
              /\ secure'.data = secure.data
              /\ secure'.length = secure.length
        /\ (secure'.op = "set" /\ Len(secure'.arg) < secure.capacity)
           => /\ secure'.result
              /\ secure'.length = Len(secure'.arg)
              /\ secure'.length < secure'.capacity
              /\ c_str(secure') = { SubSeq(secure'.arg, 1, strlen(secure'.arg)) }
        /\ secure'.op = "clear"
           => secure'.length = 0 /\ c_str(secure') = { <<>> }
        /\ secure'.op = "c_str"
           => /\ secure'.data = secure.data
              /\ secure'.text = SubSeq(secure.data, 1, strlen(secure.data))
        /\ secure'.state = "released"
           => \A i \in 1..Len(secure'.data) : secure'.data[i] = NUL ]_vars

\* C32 witness: a text of one character has been set on the buffer of an
\* ssid that held three characters of an earlier secret
C32_Witness ==
    /\ secure.state = "alive"
    /\ secure.capacity = SsidCapacity
    /\ secure.op = "set"
    /\ secure.result
    /\ secure.length = 1
    /\ secure.before[3] # NUL

(***************************************************************************)
(* The claims about the store under two callers.                           *)
(***************************************************************************)
\* caller t is between its lock_guard and its return
Inside(t) == threads.pc[t] \in {"find", "second", "unlock"}

\* caller t takes a step of the body of its call
BodyStep(t) ==
    /\ threads.pc[t] \in {"find", "second"}
    /\ threads'.pc[t] # threads.pc[t]

\* C23: at most one store operation is inside the critical section and it is
\* the holder of the mutex; the collection and the initialized flag are
\* written, and the collection is copied out, only in a step of the body of
\* the holder; a caller that is inside starts no other public operation
C23_ExclusiveAccess ==
    [][ /\ \A t, u \in Threads : (Inside(t) /\ Inside(u)) => t = u
        /\ \A t \in Threads : Inside(t) => threads.mutex = t
        /\ (credentials' # credentials \/ initialized' # initialized)
           => \E t \in Threads : BodyStep(t) /\ threads.mutex = t
        /\ \A t \in Threads :
             threads'.out[t] # threads.out[t]
             => BodyStep(t) /\ threads.mutex = t
        /\ \A t \in Threads :
             Inside(t) => threads'.op[t].name = threads.op[t].name ]_vars

\* C23 witness: one caller is half way through replacing an entry while the
\* other waits for the mutex
C23_Witness ==
    \E t, u \in Threads :
        /\ threads.pc[t] = "second"
        /\ threads.op[t].name = "addCredential"
        /\ threads.op[t].it # 0
        /\ threads.pc[u] = "lock"

\* every whole version an entry of the store can have
Versions ==
    {StoredEntry} \cup { c \in LockCredentials : validate(c) = "SUCCESS" }

\* caller t returns from getCredential: before the lock, or from the body
GetReturns(t) ==
    /\ threads'.op[t].name = "getCredential"
    /\ \/ threads.pc[t] = "out" /\ threads'.pc[t] = "out"
          /\ threads'.op[t] # threads.op[t]
       \/ BodyStep(t) /\ threads'.pc[t] = "unlock"

\* the outcome of a getCredential that returns
GetOutcome(t) ==
    LET ssid == threads'.op[t].ssid
        it == FindSsid(credentials, ssid)
    IN  IF it # 0
        THEN /\ threads'.op[t].err = "SUCCESS"
             /\ threads'.out[t] \in Versions
             /\ threads'.out[t] = credentials[it]
        ELSE /\ threads'.op[t].err = "CREDENTIAL_LOAD_ERROR"
             /\ threads'.out[t] = threads.out[t]

\* a copy changes only in the getCredential of the caller that owns it
CopyKept(t) ==
    threads'.out[t] # threads.out[t]
    => BodyStep(t) /\ threads.op[t].name = "getCredential"

\* C24, as claimed: getCredential of a stored ssid returns one whole version
\* of the entry, a returned copy is not changed by later mutations, and
\* getCredential of an absent ssid returns CREDENTIAL_LOAD_ERROR and leaves
\* the output untouched
C24_CopyAsClaimed ==
    [][ \A t \in Threads :
          /\ GetReturns(t) => GetOutcome(t)
          /\ CopyKept(t) ]_vars

\* C24, amended: the same of a getCredential with a non-empty ssid on an
\* initialized store
C24_CopyWhenInitialized ==
    [][ \A t \in Threads :
          /\ (GetReturns(t) /\ initialized /\ Len(threads'.op[t].ssid) >= 1)
             => GetOutcome(t)
          /\ CopyKept(t) ]_vars

\* C24 witness: a getCredential has returned the old entry whole while an
\* addCredential replacing the same ssid waited for the mutex
C24_Witness ==
    \E t, u \in Threads :
        /\ threads.op[t].name = "getCredential"
        /\ threads.pc[t] = "unlock"
        /\ threads.op[t].err = "SUCCESS"
        /\ threads.out[t] = StoredEntry
        /\ threads.pc[u] = "lock"
        /\ threads.op[u].name = "addCredential"
        /\ threads.op[u].cred.ssid = threads.op[t].ssid

\* the collection and the result the call op leaves when it runs alone on
\* the store
Sequential(op, store, max) ==
    LET it == FindSsid(store.credentials,
                       IF op.name = "addCredential" THEN op.cred.ssid ELSE op.ssid)
        keep(err) == [ credentials |-> store.credentials, err |-> err ]
    IN  CASE op.name = "clearAll" -> [ credentials |-> <<>>, err |-> "SUCCESS" ]
          [] op.name \in {"initialize", "getAvailableSSIDs"} -> keep("SUCCESS")
          [] OTHER ->
               IF ~store.initialized THEN keep("INVALID_STATE")
               ELSE IF op.name = "addCredential"
               THEN [ credentials |->
                        addCredentialCollection(store.credentials, op.cred, max),
                      err |-> "SUCCESS" ]
               ELSE IF it = 0 THEN keep("CREDENTIAL_LOAD_ERROR")
               ELSE IF op.name = "removeCredential"
               THEN [ credentials |-> Erase(store.credentials, it),
                      err |-> "SUCCESS" ]
               ELSE keep("SUCCESS")

\* C34: the calls take effect one after the other in the order in which
\* they took the mutex: while a call is between lock and return no other
\* caller changes the store, and when its body ends the collection, its
\* result and the copy it returned are those the call gives when it runs
\* alone on the store it found; the collection never has more than
\* maxCredentials entries and never two entries of one ssid
C34_CallsTakeEffectInOrder ==
    [][ /\ \A t \in Threads :
             (Inside(t) /\ threads'.pc[t] = threads.pc[t])
             => credentials' = credentials /\ initialized' = initialized
        /\ \A t \in Threads :
             (BodyStep(t) /\ threads'.pc[t] = "unlock")
             => LET op == threads'.op[t]
                    alone == Sequential(op, op.seen, maxCredentials)
                IN  /\ credentials' = alone.credentials
                    /\ op.err = alone.err
                    /\ (op.name = "getCredential" /\ op.err = "SUCCESS")
                       => threads'.out[t]
                            = op.seen.credentials[FindSsid(op.seen.credentials,
                                                           op.ssid)]
                    /\ (op.name = "getCredential" /\ op.err # "SUCCESS")
                       => threads'.out[t] = threads.out[t]
        /\ Len(credentials') <= maxCredentials
        /\ \A i, j \in 1..Len(credentials') :
             credentials'[i].ssid = credentials'[j].ssid => i = j ]_vars

\* C34 witness: an addCredential of a new ssid that found the one slot of
\* the store free is about to append, while an addCredential of another new
\* ssid waits for the mutex
C34_Witness ==
    \E t, u \in Threads :
        /\ threads.pc[t] = "second"
        /\ threads.op[t].name = "addCredential"
        /\ threads.op[t].it = 0
        /\ Len(threads.op[t].seen.credentials) = maxCredentials - 1
        /\ threads.pc[u] = "lock"
        /\ threads.op[u].name = "addCredential"
        /\ threads.op[u].cred.ssid # threads.op[t].cred.ssid

(***************************************************************************)
(* The claims about configWithValidation under two callers.                *)
(***************************************************************************)
\* C36: a configWithValidation whose config() call fails returns
\* INVALID_PARAMETER and leaves as the active configuration the one that was
\* active when the call took _configMutex; between the return of config() and
\* the rollback no other caller changes the active configuration, and a
\* setter writes it only while it holds the mutex
C36_RollbackRestoresConfig ==
    [][ \A t \in Threads :
          LET op == configCalls.op[t] IN
          /\ ( /\ configCalls.pc[t] = "applied"
               /\ configCalls'.pc[t] = "unlock"
               /\ ~op.success )
             => /\ configCalls'.op[t].err = "INVALID_PARAMETER"
                /\ apConfig' = op.seen
          /\ ( /\ configCalls.pc[t] \in {"inside", "applied"}
               /\ configCalls'.pc[t] = configCalls.pc[t] )
             => apConfig' = apConfig
          /\ ( /\ configCalls.pc[t] = "inside"
               /\ configCalls'.pc[t] = "unlock"
               /\ op.name # "configWithValidation" )
             => configCalls.mutex = t ]_vars

\* C36 witness: config() has failed and left a changed configuration, the
\* rollback is still to come, and a setter of the other caller waits for
\* the mutex
C36_Witness ==
    \E t, u \in Threads :
        /\ configCalls.pc[t] = "applied"
        /\ ~configCalls.op[t].success
        /\ apConfig # configCalls.op[t].oldConfig
        /\ configCalls.pc[u] = "lock"
        /\ configCalls.op[u].name = "setHostname"

(***************************************************************************)
(* The claims about TimeoutHelper.                                         *)
(***************************************************************************)
\* C37: elapsed() is the number of milliseconds that have passed since the
\* timer was started, also when millis() has wrapped in between; isExpired()
\* is true exactly when that number has reached the timeout; remaining() is 0
\* exactly when isExpired(), and otherwise the timeout less the elapsed time
C37_ElapsedModulo ==
    timer.state = "running"
    => /\ timer.elapsed = ToWord(timer.passed)
       /\ timer.isExpired <=> timer.passed >= timer.timeoutMs
       /\ (timer.remaining = ToWord(0)) <=> timer.isExpired
       /\ ~timer.isExpired
          => timer.remaining = ToWord(timer.timeoutMs - timer.passed)

\* C37 witness: a timer of 5000 ms started 1000 ms before millis() wraps is
\* read 4999 ms later, after the wrap, and is not expired
C37_Witness ==
    /\ timer.state = "running"
    /\ timer.helper._startTime = <<HalfRange - 1, HalfRange - 1000>>
    /\ timer.timeoutMs = 5000
    /\ timer.passed = 4999
    /\ timer.millis = ToWord(3999)
    /\ ~timer.isExpired
    /\ timer.remaining = ToWord(1)

====
